---- MODULE Spec2Model ----
(***************************************************************************)
(* Detail-page enrichment stage of the Daangn crawl scripts                *)
(* (carrot-require-crawl.py, carrot-require-crawl-apple.py,                *)
(* carrot-rough-crawl.py): a fixed pool of page handles, sequential        *)
(* batches of concurrent _fetch_detail tasks joined by asyncio.gather,     *)
(* the in-place merge of the results and the inter-batch sleep.            *)
(*                                                                         *)
(* Positions are 1-based here (Python's are 0-based); chunk_start keeps    *)
(* the 0-based value of the source, so record chunk_start + j is the       *)
(* record at batch position j.                                             *)
(***************************************************************************)
EXTENDS Naturals, Integers, Sequences, FiniteSets, TLC

\* ------------------------------------------------------------------ bounds
MaxRecords == 3
MaxConcurrency == 2

\* ------------------------------------------------------- program constants
DETAIL_PAGE_DELAY_MS == 800
DETAIL_PAGE_DELAY_MS_ON_FAIL == 200

VARIABLES
    variant,                  \* which script runs: "require", "rough", or "apple" (the require
                              \* script with the status and price filter)
    DETAIL_PAGE_CONCURRENCY,  \* the configured concurrency (module constant of the script)
    items_to_detail,          \* the records handed to enrichment, mutated in place
    detail_pages,             \* the pool of page handles
    chunk_start,              \* loop variable of the batch loop
    pc,                       \* position of main()
    tasks,                    \* the _fetch_detail coroutines of the current batch
    results,                  \* what asyncio.gather returns, by batch position
    input0,                   \* history: items_to_detail as enrichment received it
    visits,                   \* history: number of fetches started per record
    fstate,                   \* history: per-record state machine
    fetched,                  \* history: what the fetch of each record resolved to
    failed,                   \* history: the fetch of the record took the except path
    merged,                   \* history: the record's result has been merged
    delay_ms,                 \* local of the batch loop: the delay chosen after the batch
    overtook,                 \* history: a fetch resolved before one at an earlier batch position
    log                       \* history: batches started and sleeps taken, in order

\* the stages of main() around enrichment: list expansion, extraction, deduplication,
\* the category pre-pass and the post-filter
VARIABLES
    source,                   \* how the renderer's card list behaves (environment)
    TARGET_COUNT,             \* the configured target (module constant of the script)
    dom_count,                \* the cards the renderer currently shows
    pending,                  \* cards a trigger has requested and the renderer has not shown yet
    prev_count,               \* local of the expansion loop
    count,                    \* local of the expansion loop: the last count read at the loop top
    elapsed,                  \* milliseconds since the click, as time.monotonic() measures them
    c0,                       \* history: the count the renderer showed when the loop began
    triggers,                 \* history: clicks issued
    exit_reason,              \* history: the branch that ended the expansion loop
    raw,                      \* the cards the extraction script returned
    items,                    \* main.items: the records after deduplication
    allowed_set,              \* the category allow-set ({} when categories is None)
    items_to_write            \* the records handed to the CSV writer

\* the status and price filter of the apple script, and what a run leaves behind
VARIABLES
    sold_only,                \* main.sold_only: the status filter is enabled
    min_price,                \* main.min_price
    max_price,                \* main.max_price: {} for None, {v} for the integer v
    csv,                      \* the output file: whether it was written, and its rows
    no_items_msg              \* the "no matching posts" message was printed

\* fetch_html_browser of deprecate/crawl.py: the engines tried in turn, one browser and
\* one context per attempt
VARIABLES
    engine,                   \* argument: the requested engine
    no_fallback,              \* argument
    screenshot_path,          \* argument: {} for None, {path} otherwise
    engines_to_try,           \* local: the engines of the for loop
    tried,                    \* history: the engines whose attempt has started (the last is eng)
    browser,                  \* local: {} for None, {e} for the browser engine e launched
    context,                  \* local: {} for None, {e} for the context of that browser
    last_err,                 \* local: {} for None, {error} for the last exception caught
    ret,                      \* {} or {value}: the value of the return statement, held while
                              \* the finally clause runs and handed to the caller after it
    opened,                   \* history: the browsers and contexts opened
    close_calls               \* history: the close() calls awaited, and whether they succeeded

browserFetch == <<engine, no_fallback, screenshot_path, engines_to_try, tried, browser,
                  context, last_err, ret, opened, close_calls>>

filterConfig == <<sold_only, min_price, max_price>>

sink == <<csv, no_items_msg>>

otherStages == <<source, TARGET_COUNT, dom_count, pending, prev_count, count,
                 elapsed, c0, triggers, exit_reason, raw, items, allowed_set, items_to_write,
                 filterConfig, browserFetch, sink>>

enrichment == <<variant, DETAIL_PAGE_CONCURRENCY, items_to_detail, detail_pages, chunk_start,
                tasks, results, delay_ms, input0, visits, fstate, fetched, failed, merged,
                overtook, log>>

vars == <<enrichment, pc, otherStages>>

NoFile == [written |-> FALSE, rows |-> << >>]

\* fetch_html_browser is not called
BrowserFetchIdle ==
    /\ engine = "chromium"
    /\ no_fallback = FALSE
    /\ screenshot_path = {}
    /\ engines_to_try = << >>
    /\ tried = << >>
    /\ browser = {}
    /\ context = {}
    /\ last_err = {}
    /\ ret = {}
    /\ opened = {}
    /\ close_calls = {}

\* no status or price filter is configured and nothing has been written
FiltersIdle ==
    /\ sold_only = FALSE
    /\ min_price = 0
    /\ max_price = {}
    /\ csv = NoFile
    /\ no_items_msg = FALSE

\* the value of the other stages' variables while only the enrichment stage is observed
StagesIdle ==
    /\ source = "none"
    /\ TARGET_COUNT = 0
    /\ dom_count = 0
    /\ pending = 0
    /\ prev_count = 0
    /\ count = 0
    /\ elapsed = 0
    /\ c0 = 0
    /\ triggers = 0
    /\ exit_reason = ""
    /\ raw = << >>
    /\ items = << >>
    /\ allowed_set = {}
    /\ items_to_write = << >>
    /\ FiltersIdle
    /\ BrowserFetchIdle

\* ------------------------------------------------------------------ values
Min(a, b) == IF a <= b THEN a ELSE b

Url(i) == "u" \o ToString(i)

\* Card (list-stage) values and detail-page values of a url are distinct strings,
\* so a merged field shows where it came from.
ListTitle(u) == "t:" \o u
ListLocation(u) == "l:" \o u
DetailTitle(u) == "T:" \o u
DetailLocation(u) == "L:" \o u
DetailDescription(u) == "D:" \o u

\* category names: "A" is known on some cards, "B" is what a detail page may report
ListCategories == {"", "A"}
DetailCategories == {"", "B"}

\* f"[조회실패: {e!s}]" and the test startswith("[조회실패")
FAIL_DESCRIPTION == "[lookup-failed: e]"
StartsWithFailMark(d) == d = FAIL_DESCRIPTION

Positions == 1 .. MaxConcurrency

\* A card as page.evaluate returns it. Only the rough script's cards have a
\* description ("" on the card); the other scripts never read or write the field.
Card(u, loc, cat) ==
    [url |-> u, title |-> ListTitle(u), location |-> loc, category |-> cat,
     description |-> ""]

\* What a card shows of location and category: both, or neither.
ListProfiles == {<<"l", "A">>, <<"", "">>}

\* Sequences of n records with pairwise distinct urls (what dedupe and the
\* category pre-pass hand over).
Inputs(n) ==
    LET choice == [1 .. n -> ListProfiles]
    IN  { [i \in 1 .. n |->
             Card(Url(i),
                  IF c[i][1] = "" THEN "" ELSE ListLocation(Url(i)),
                  c[i][2])] : c \in choice }

NoResult == [kind |-> "none", title |-> "", location |-> "", category |-> "",
             description |-> ""]

\* fail_result of _fetch_detail in the require and apple scripts
FailResultRequire ==
    [kind |-> "dict", title |-> "", location |-> "", category |-> "", description |-> ""]

\* fail_result of _fetch_detail in the rough script, description set in the handler
FailResultRough ==
    [kind |-> "dict", title |-> "", location |-> "", category |-> "",
     description |-> FAIL_DESCRIPTION]

\* a faulty FailResult: the exception leaves _fetch_detail and reaches asyncio.gather
FailResultRaised ==
    [kind |-> "exception", title |-> "", location |-> "", category |-> "",
     description |-> ""]

FailResult == IF variant = "rough" THEN FailResultRough ELSE FailResultRequire

IdleTask == [pc |-> "idle", page |-> 0, url |-> ""]

\* ------------------------------------------------------------ derived state
total == Len(items_to_detail)

\* a faulty concurrency: the pool sized by the configured value alone, without min
concurrencyNoMin == IF total # 0 THEN DETAIL_PAGE_CONCURRENCY ELSE 0

concurrency == IF total # 0 THEN Min(DETAIL_PAGE_CONCURRENCY, total) ELSE 0

\* items_to_detail[chunk_start : chunk_start + concurrency]
Chunk(start) ==
    SubSeq(items_to_detail, start + 1, Min(start + concurrency, total))

chunk == Chunk(chunk_start)

\* -------------------------------------------------------------- the merge
\* extra for a result that is an Exception object
ExceptionExtraRequire ==
    [kind |-> "dict", title |-> "", location |-> "", category |-> "", description |-> ""]

ExceptionExtraRough ==
    [kind |-> "dict", title |-> "", location |-> "", category |-> "",
     description |-> FAIL_DESCRIPTION]

MergeRequire(item, r) ==
    LET extra == IF r.kind = "exception" THEN ExceptionExtraRequire ELSE r
    IN  [item EXCEPT
            !.title = IF extra.title # "" THEN extra.title ELSE @,
            !.location = IF extra.location # "" THEN extra.location ELSE @,
            !.category = IF extra.category # "" THEN extra.category ELSE @]

MergeRough(item, r) ==
    LET extra == IF r.kind = "exception" THEN ExceptionExtraRough ELSE r
    IN  [item EXCEPT
            !.title = IF extra.title # "" THEN extra.title ELSE @,
            !.description = extra.description,
            !.location = IF extra.location # "" THEN extra.location ELSE @,
            !.category = extra.category]

MergeItem(item, r) ==
    IF variant = "rough" THEN MergeRough(item, r) ELSE MergeRequire(item, r)

\* a faulty ResultFor: every record of the batch receives the first result
ResultForFirst(rs, j) == rs[1]

\* result re-associated with the record at the same batch position
ResultFor(rs, j) == rs[j]

\* a faulty MergedItems: the record list is replaced by the merged batch
MergedItemsChunkOnly(recs, start, len, rs) ==
    [j \in 1 .. len |-> MergeItem(recs[start + j], rs[j])]

\* for j, item in enumerate(chunk): ... item[...] = ...
MergedItems(recs, start, len, rs) ==
    [i \in 1 .. Len(recs) |->
        IF i > start /\ i <= start + len
        THEN MergeItem(recs[i], ResultFor(rs, i - start))
        ELSE recs[i]]

AnyFailRequire(rs, len) ==
    \E j \in 1 .. len : rs[j].kind = "exception"

AnyFailRough(rs, len) ==
    \E j \in 1 .. len :
        \/ rs[j].kind = "exception"
        \/ rs[j].kind = "dict" /\ StartsWithFailMark(rs[j].description)

AnyFail(rs, len) ==
    IF variant = "rough" THEN AnyFailRough(rs, len) ELSE AnyFailRequire(rs, len)

DelayMs(any_fail) ==
    IF any_fail THEN DETAIL_PAGE_DELAY_MS_ON_FAIL ELSE DETAIL_PAGE_DELAY_MS

\* a faulty SleepsAfter: the sleep also follows the last batch
SleepsAlways(start, len) == TRUE

\* if chunk_start + len(chunk) < total
SleepsAfter(start, len) == start + len < total

\* ------------------------------------------------------------------- Init
Init ==
    /\ variant \in {"require", "rough"}
    /\ DETAIL_PAGE_CONCURRENCY \in 1 .. MaxConcurrency
    /\ \E n \in 0 .. MaxRecords : items_to_detail \in Inputs(n)
    /\ input0 = items_to_detail
    /\ detail_pages = << >>
    /\ chunk_start = 0
    /\ pc = "new_page"
    /\ tasks = [j \in Positions |-> IdleTask]
    /\ results = [j \in Positions |-> NoResult]
    /\ visits = [i \in 1 .. Len(items_to_detail) |-> 0]
    /\ fstate = [i \in 1 .. Len(items_to_detail) |-> "not-visited"]
    /\ fetched = [i \in 1 .. Len(items_to_detail) |-> NoResult]
    /\ failed = [i \in 1 .. Len(items_to_detail) |-> FALSE]
    /\ merged = [i \in 1 .. Len(items_to_detail) |-> FALSE]
    /\ delay_ms = 0
    /\ overtook = FALSE
    /\ log = << >>
    /\ StagesIdle

\* ---------------------------------------------------------------- the pool
NewPageHandle == [url |-> "", closed |-> FALSE, busy |-> 0]

\* detail_pages = [await browser.new_page() for _ in range(concurrency)], one page per step
NewPage ==
    /\ pc = "new_page"
    /\ total > 0 /\ concurrency > 0
    /\ Len(detail_pages) < concurrency
    /\ detail_pages' = Append(detail_pages, NewPageHandle)
    /\ pc' = IF Len(detail_pages') = concurrency THEN "loop" ELSE "new_page"
    /\ UNCHANGED <<otherStages, variant, DETAIL_PAGE_CONCURRENCY, items_to_detail, chunk_start, tasks,
                   results, delay_ms, input0, visits, fstate, fetched, failed, merged, log,
                   overtook>>

\* the pool is not created when there is nothing to visit
SkipPool ==
    /\ pc = "new_page"
    /\ ~(total > 0 /\ concurrency > 0)
    /\ pc' = "loop"
    /\ UNCHANGED <<otherStages, variant, DETAIL_PAGE_CONCURRENCY, items_to_detail, detail_pages,
                   chunk_start, tasks, results, delay_ms, input0, visits, fstate, fetched,
                   failed, merged, log,
                   overtook>>

\* ------------------------------------------------------------ the batch loop
\* a faulty Step: the batch loop advances by one record instead of one batch
StepOne == IF concurrency # 0 THEN 1 ELSE 1

\* a faulty Step: the batch loop advances by two batches
StepTwice == IF concurrency # 0 THEN 2 * concurrency ELSE 1

\* range(0, total, concurrency if concurrency else 1)
Step == IF concurrency # 0 THEN concurrency ELSE 1

\* a faulty PageFor: every task of the batch is given the first handle
PageForFirst(j) == 1

\* detail_pages[j] in the task list
PageFor(j) == j

InChunk(i, start, len) == i > start /\ i <= start + len

\* tasks = [_fetch_detail(detail_pages[j], chunk[j]["url"]) for j in range(len(chunk))]
\* followed by the start of asyncio.gather
StartBatch ==
    /\ pc = "loop"
    /\ chunk_start < total
    /\ LET len == Len(chunk)
       IN  /\ tasks' = [j \in Positions |->
                          IF j <= len
                          THEN [pc |-> "goto", page |-> PageFor(j), url |-> chunk[j].url]
                          ELSE IdleTask]
           /\ detail_pages' =
                 [h \in 1 .. Len(detail_pages) |->
                     [detail_pages[h] EXCEPT
                         !.busy = @ + Cardinality({j \in 1 .. len : PageFor(j) = h})]]
           /\ results' = [j \in Positions |-> NoResult]
           /\ visits' = [i \in 1 .. total |->
                           IF InChunk(i, chunk_start, len) THEN visits[i] + 1 ELSE visits[i]]
           /\ fstate' = [i \in 1 .. total |->
                           IF InChunk(i, chunk_start, len) THEN "visit-in-flight" ELSE fstate[i]]
           /\ log' = Append(log, [ev |-> "batch", start |-> chunk_start, len |-> len,
                                  delay_ms |-> 0, any_failed |-> FALSE])
    /\ pc' = "gather"
    /\ UNCHANGED <<otherStages, variant, DETAIL_PAGE_CONCURRENCY, items_to_detail, chunk_start, delay_ms,
                   input0, fetched, failed, merged, overtook>>

LoopExit ==
    /\ pc = "loop"
    /\ ~(chunk_start < total)
    /\ pc' = "close"
    /\ UNCHANGED <<otherStages, variant, DETAIL_PAGE_CONCURRENCY, items_to_detail, detail_pages,
                   chunk_start, tasks, results, delay_ms, input0, visits, fstate, fetched,
                   failed, merged, log,
                   overtook>>

\* -------------------------------------------------------------- _fetch_detail
InFlight(j) == tasks[j].pc \in {"goto", "wait_for_selector", "wait_for_timeout", "evaluate"}

\* the coroutine at batch position j returns r (is_fail: through the except clause)
Resolve(j, r, is_fail) ==
    /\ tasks' = [tasks EXCEPT ![j].pc = "done"]
    /\ results' = [results EXCEPT ![j] = r]
    /\ fstate' = [fstate EXCEPT
                    ![chunk_start + j] = IF is_fail THEN "visited-empty" ELSE "visited-success"]
    /\ fetched' = [fetched EXCEPT ![chunk_start + j] = r]
    /\ failed' = [failed EXCEPT ![chunk_start + j] = is_fail]
    /\ overtook' = (overtook \/ \E k \in 1 .. j - 1 : InFlight(k))

ReleasePage(j) ==
    detail_pages' = [h \in 1 .. Len(detail_pages) |->
                        IF h = tasks[j].page
                        THEN [detail_pages[h] EXCEPT !.busy = @ - 1]
                        ELSE detail_pages[h]]

\* await page.goto(url, ...) returns
GotoOk(j) ==
    /\ pc = "gather"
    /\ tasks[j].pc = "goto"
    /\ tasks' = [tasks EXCEPT ![j].pc = "wait_for_selector"]
    /\ detail_pages' = [detail_pages EXCEPT ![tasks[j].page].url = tasks[j].url]
    /\ UNCHANGED <<otherStages, variant, DETAIL_PAGE_CONCURRENCY, items_to_detail, chunk_start, pc,
                   results, delay_ms, input0, visits, fstate, fetched, failed, merged, log,
                   overtook>>

\* await page.goto(url, ...) raises (navigation error or timeout)
GotoFail(j) ==
    /\ pc = "gather"
    /\ tasks[j].pc = "goto"
    /\ Resolve(j, FailResult, TRUE)
    /\ ReleasePage(j)
    /\ UNCHANGED <<otherStages, variant, DETAIL_PAGE_CONCURRENCY, items_to_detail, chunk_start, pc,
                   delay_ms, input0, visits, merged, log>>

\* await page.wait_for_selector(...) returns
WaitSelectorOk(j) ==
    /\ pc = "gather"
    /\ tasks[j].pc = "wait_for_selector"
    /\ tasks' = [tasks EXCEPT ![j].pc = "evaluate"]
    /\ UNCHANGED <<otherStages, variant, DETAIL_PAGE_CONCURRENCY, items_to_detail, detail_pages,
                   chunk_start, pc, results, delay_ms, input0, visits, fstate, fetched,
                   failed, merged, log,
                   overtook>>

\* a faulty WaitSelectorTimeout: without the inner try, the timeout reaches the outer
\* except and the fetch returns fail_result
WaitSelectorTimeoutFails(j) ==
    /\ pc = "gather"
    /\ tasks[j].pc = "wait_for_selector"
    /\ Resolve(j, FailResult, TRUE)
    /\ ReleasePage(j)
    /\ UNCHANGED <<otherStages, variant, DETAIL_PAGE_CONCURRENCY, items_to_detail, chunk_start, pc,
                   delay_ms, input0, visits, merged, log>>

\* await page.wait_for_selector(...) raises: the inner except starts the grace wait
WaitSelectorTimeout(j) ==
    /\ pc = "gather"
    /\ tasks[j].pc = "wait_for_selector"
    /\ tasks' = [tasks EXCEPT ![j].pc = "wait_for_timeout"]
    /\ UNCHANGED <<otherStages, variant, DETAIL_PAGE_CONCURRENCY, items_to_detail, detail_pages,
                   chunk_start, pc, results, delay_ms, input0, visits, fstate, fetched,
                   failed, merged, log,
                   overtook>>

\* await page.wait_for_timeout(DETAIL_PAGE_FALLBACK_MS) returns
GraceOk(j) ==
    /\ pc = "gather"
    /\ tasks[j].pc = "wait_for_timeout"
    /\ tasks' = [tasks EXCEPT ![j].pc = "evaluate"]
    /\ UNCHANGED <<otherStages, variant, DETAIL_PAGE_CONCURRENCY, items_to_detail, detail_pages,
                   chunk_start, pc, results, delay_ms, input0, visits, fstate, fetched,
                   failed, merged, log,
                   overtook>>

\* await page.wait_for_timeout(...) raises
GraceFail(j) ==
    /\ pc = "gather"
    /\ tasks[j].pc = "wait_for_timeout"
    /\ Resolve(j, FailResult, TRUE)
    /\ ReleasePage(j)
    /\ UNCHANGED <<otherStages, variant, DETAIL_PAGE_CONCURRENCY, items_to_detail, chunk_start, pc,
                   delay_ms, input0, visits, merged, log>>

\* What _extract_detail_js can return on the document loaded in a page: nothing found,
\* exactly one of title, location and category found, or all three; the rough
\* script also returns a description.
DetailShapes ==
    { sh \in BOOLEAN \X BOOLEAN \X DetailCategories :
        LET n == (IF sh[1] THEN 1 ELSE 0) + (IF sh[2] THEN 1 ELSE 0)
                 + (IF sh[3] # "" THEN 1 ELSE 0)
        IN  n \in {0, 1, 3} }

DetailData(u) ==
    { [kind |-> "dict",
       title |-> IF sh[1] THEN DetailTitle(u) ELSE "",
       location |-> IF sh[2] THEN DetailLocation(u) ELSE "",
       category |-> sh[3],
       description |-> IF variant = "rough" /\ sh[1] THEN DetailDescription(u) ELSE ""] :
         sh \in DetailShapes }

\* data = await page.evaluate(_extract_detail_js()); return data
EvalOk(j) ==
    /\ pc = "gather"
    /\ tasks[j].pc = "evaluate"
    /\ \E data \in DetailData(detail_pages[tasks[j].page].url) : Resolve(j, data, FALSE)
    /\ ReleasePage(j)
    /\ UNCHANGED <<otherStages, variant, DETAIL_PAGE_CONCURRENCY, items_to_detail, chunk_start, pc,
                   delay_ms, input0, visits, merged, log>>

\* await page.evaluate(...) raises
EvalFail(j) ==
    /\ pc = "gather"
    /\ tasks[j].pc = "evaluate"
    /\ Resolve(j, FailResult, TRUE)
    /\ ReleasePage(j)
    /\ UNCHANGED <<otherStages, variant, DETAIL_PAGE_CONCURRENCY, items_to_detail, chunk_start, pc,
                   delay_ms, input0, visits, merged, log>>

\* ------------------------------------------------- after asyncio.gather returns
\* a faulty GatherDone: the join returns as soon as one task has finished
GatherDoneAny == \E j \in 1 .. Len(chunk) : tasks[j].pc = "done"

\* asyncio.gather returns when every task of the batch has finished
GatherDone == \A j \in 1 .. Len(chunk) : tasks[j].pc = "done"

\* the merge loop, any_fail, delay_ms and the test for the sleep: no suspension point
\* lies between them
GatherReturn ==
    /\ pc = "gather"
    /\ GatherDone
    /\ LET len == Len(chunk)
           any_fail == AnyFail(results, len)
       IN  /\ items_to_detail' = MergedItems(items_to_detail, chunk_start, len, results)
           /\ merged' = [i \in 1 .. total |-> merged[i] \/ InChunk(i, chunk_start, len)]
           /\ delay_ms' = DelayMs(any_fail)
           /\ IF SleepsAfter(chunk_start, len)
              THEN pc' = "sleep" /\ UNCHANGED chunk_start
              ELSE pc' = "loop" /\ chunk_start' = chunk_start + Step
    /\ UNCHANGED <<otherStages, variant, DETAIL_PAGE_CONCURRENCY, detail_pages, tasks, results, input0,
                   visits, fstate, fetched, failed, log,
                   overtook>>

\* await asyncio.sleep(delay_ms / 1000) returns
SleepDone ==
    /\ pc = "sleep"
    /\ log' = Append(log, [ev |-> "sleep", start |-> chunk_start, len |-> Len(chunk),
                           delay_ms |-> delay_ms,
                           any_failed |-> \E i \in 1 .. total :
                                             InChunk(i, chunk_start, Len(chunk)) /\ failed[i]])
    /\ chunk_start' = chunk_start + Step
    /\ pc' = "loop"
    /\ UNCHANGED <<otherStages, variant, DETAIL_PAGE_CONCURRENCY, items_to_detail, detail_pages, tasks,
                   results, delay_ms, input0, visits, fstate, fetched, failed, merged,
                   overtook>>

\* for p in detail_pages: await p.close()
ClosePage ==
    /\ pc = "close"
    /\ \E h \in 1 .. Len(detail_pages) :
          /\ ~detail_pages[h].closed
          /\ \A g \in 1 .. h - 1 : detail_pages[g].closed
          /\ detail_pages' = [detail_pages EXCEPT ![h].closed = TRUE]
    /\ UNCHANGED <<otherStages, variant, DETAIL_PAGE_CONCURRENCY, items_to_detail, chunk_start, pc, tasks,
                   results, delay_ms, input0, visits, fstate, fetched, failed, merged, log,
                   overtook>>

\* the close loop is over
Finish ==
    /\ pc = "close"
    /\ \A h \in 1 .. Len(detail_pages) : detail_pages[h].closed
    /\ pc' = "done"
    /\ UNCHANGED <<otherStages, variant, DETAIL_PAGE_CONCURRENCY, items_to_detail, detail_pages,
                   chunk_start, tasks, results, delay_ms, input0, visits, fstate, fetched,
                   failed, merged, log,
                   overtook>>

FetchStep ==
    \E j \in Positions :
        \/ GotoOk(j)
        \/ GotoFail(j)
        \/ WaitSelectorOk(j)
        \/ WaitSelectorTimeout(j)
        \/ GraceOk(j)
        \/ GraceFail(j)
        \/ EvalOk(j)
        \/ EvalFail(j)

Next ==
    \/ NewPage
    \/ SkipPool
    \/ StartBatch
    \/ LoopExit
    \/ FetchStep
    \/ GatherReturn
    \/ SleepDone
    \/ ClosePage
    \/ Finish

Spec == Init /\ [][Next]_vars

\* ---------------------------------------------------------------- properties
Visited == {"visited-success", "visited-empty"}

Records == 1 .. Len(input0)

EnrichmentOver == pc \in {"close", "done"}

C1_VisitCounts ==
    \A i \in Records :
        /\ visits[i] <= 1
        /\ (visits[i] = 0) <=> (fstate[i] = "not-visited")
        /\ EnrichmentOver => visits[i] = 1 /\ fstate[i] \in Visited

C1_NoRetry ==
    \A i \in Records : fstate[i] \in Visited => fstate'[i] = fstate[i]

\* C1: every record of the enrichment input is fetched exactly once: no record is
\* fetched twice, after the batch loop every record has been fetched once and has
\* reached visited-success or visited-empty, and a visited record never leaves
\* that state (no retry).
C1_ExactlyOnce == [](C1_VisitCounts) /\ [][C1_NoRetry]_vars

\* three records in two batches, one fetch failed, one succeeded, all visited once
C1_Witness ==
    /\ pc = "done"
    /\ Len(input0) = 3
    /\ Len(detail_pages) = 2
    /\ \A i \in Records : visits[i] = 1
    /\ fstate[1] = "visited-empty"
    /\ fstate[3] = "visited-success"

AllEmpty(r) == r.title = "" /\ r.location = "" /\ r.category = ""

\* C2: in every variant, a fetch that failed or returned all-empty fields leaves the
\* record's list-stage title, location and category unchanged, and no merge
\* replaces a non-empty list-stage value by an empty one.
C2_NoBlanking ==
    \A i \in Records :
        merged[i] =>
            /\ (failed[i] \/ AllEmpty(fetched[i])) =>
                  /\ items_to_detail[i].title = input0[i].title
                  /\ items_to_detail[i].location = input0[i].location
                  /\ items_to_detail[i].category = input0[i].category
            /\ input0[i].title # "" => items_to_detail[i].title # ""
            /\ input0[i].location # "" => items_to_detail[i].location # ""
            /\ input0[i].category # "" => items_to_detail[i].category # ""

\* C3: per field (title, location, category), the value after the merge is the
\* fetched value when that is non-empty and the previous value otherwise.
C3_MergeRule ==
    \A i \in Records :
        merged[i] =>
            /\ items_to_detail[i].title =
                  IF fetched[i].title # "" THEN fetched[i].title ELSE input0[i].title
            /\ items_to_detail[i].location =
                  IF fetched[i].location # "" THEN fetched[i].location
                  ELSE input0[i].location
            /\ items_to_detail[i].category =
                  IF fetched[i].category # "" THEN fetched[i].category
                  ELSE input0[i].category

\* C4: at every moment of enrichment the record sequence has the length of the
\* input and the same url at every position, whatever the completion order and
\* the failures.
C4_OrderKept ==
    /\ Len(items_to_detail) = Len(input0)
    /\ \A i \in Records : items_to_detail[i].url = input0[i].url

\* three records, a fetch overtook an earlier one, the second failed, the third merged
C4_Witness ==
    /\ pc = "done"
    /\ Len(input0) = 3
    /\ overtook
    /\ failed[2]
    /\ items_to_detail[3].title = DetailTitle(Url(3))

\* C5: the result merged into a record is the result of the fetch of its own url
\* (title and location come from its own detail page), and the record's fields
\* are those of merging that one result into the list-stage record, as a
\* one-at-a-time execution gives.
C5_OwnResult ==
    \A i \in Records :
        /\ fstate[i] \in Visited =>
              /\ fetched[i].title \in {"", DetailTitle(input0[i].url)}
              /\ fetched[i].location \in {"", DetailLocation(input0[i].url)}
        /\ merged[i] => items_to_detail[i] = MergeItem(input0[i], fetched[i])
        /\ ~merged[i] => items_to_detail[i] = input0[i]

\* one batch of two: the second fetch finished first; the first record took its own
\* detail title, the second kept its list title
C5_Witness ==
    /\ pc = "done"
    /\ Len(input0) = 2
    /\ Len(detail_pages) = 2
    /\ overtook
    /\ items_to_detail[1].title = DetailTitle(Url(1))
    /\ items_to_detail[2].title = ListTitle(Url(2))

InFlightCount == Cardinality({j \in Positions : InFlight(j)})

\* C6: the pool holds exactly min(concurrency, number of records) handles once it is
\* built (none for no records), never more while it is built; the fetches in
\* flight never outnumber it, and every task is bound to an existing handle.
C6_PoolBound ==
    LET size == Min(DETAIL_PAGE_CONCURRENCY, Len(input0))
    IN  /\ Len(detail_pages) <= size
        /\ pc # "new_page" => Len(detail_pages) = size
        /\ InFlightCount <= size
        /\ \A j \in Positions :
              tasks[j].pc # "idle" => tasks[j].page \in 1 .. Len(detail_pages)
        /\ pc = "gather" => Len(chunk) <= Len(detail_pages)

\* one record under a configured concurrency of two: one handle, serving the fetch
C6_Witness ==
    /\ Len(input0) = 1
    /\ DETAIL_PAGE_CONCURRENCY = 2
    /\ Len(detail_pages) = 1
    /\ InFlight(1)
    /\ tasks[1].page = 1

\* C7: no handle serves two fetches in flight: handle i serves batch position i
\* only, and every handle is free when a batch starts.
C7_HandleExclusive ==
    /\ \A h \in 1 .. Len(detail_pages) :
          /\ detail_pages[h].busy <= 1
          /\ Cardinality({j \in Positions : InFlight(j) /\ tasks[j].page = h}) <= 1
    /\ \A j \in Positions : tasks[j].pc # "idle" => tasks[j].page = j
    /\ pc = "loop" => \A h \in 1 .. Len(detail_pages) : detail_pages[h].busy = 0

\* handle 1, which served u1 in the first batch, serves the third record in the second
C7_Witness ==
    /\ Len(input0) = 3
    /\ chunk_start = 2
    /\ tasks[1].pc = "goto"
    /\ tasks[1].url = Url(3)
    /\ detail_pages[1].url = Url(1)
    /\ detail_pages[1].busy = 1
    /\ detail_pages[2].busy = 0

\* C8: while a fetch is in flight, main() waits in gather; every record of an earlier
\* batch is visited and merged, no record of a later batch has started, and the
\* sleep after the previous batch is over.
C8_BatchesSequential ==
    (\E j \in Positions : InFlight(j)) =>
        /\ pc = "gather"
        /\ \A i \in Records :
              /\ i <= chunk_start => fstate[i] \in Visited /\ merged[i]
              /\ i > chunk_start + Len(chunk) => fstate[i] = "not-visited" /\ ~merged[i]
        /\ Len(log) > 0 /\ log[Len(log)].ev = "batch" /\ log[Len(log)].start = chunk_start
        /\ chunk_start > 0 =>
              /\ Len(log) >= 3
              /\ log[Len(log) - 1].ev = "sleep"
              /\ log[Len(log) - 1].start + log[Len(log) - 1].len = chunk_start

\* second of three batches in flight: the first record is merged, the third not started
C8_Witness ==
    /\ Len(input0) = 3
    /\ Len(detail_pages) = 1
    /\ chunk_start = 1
    /\ tasks[1].pc = "evaluate"
    /\ merged[1]
    /\ fstate[3] = "not-visited"

\* C9: the sleep after a batch lasts DETAIL_PAGE_DELAY_MS_ON_FAIL when a fetch of
\* the batch failed and DETAIL_PAGE_DELAY_MS when none did.
C9_AdaptiveDelay ==
    \A k \in 1 .. Len(log) :
        log[k].ev = "sleep" =>
            log[k].delay_ms = IF log[k].any_failed THEN DETAIL_PAGE_DELAY_MS_ON_FAIL
                              ELSE DETAIL_PAGE_DELAY_MS

BatchCount == Cardinality({k \in 1 .. Len(log) : log[k].ev = "batch"})

SleepCount == Cardinality({k \in 1 .. Len(log) : log[k].ev = "sleep"})

\* C10: batches and sleeps alternate, starting with a batch; main() sleeps only
\* when records remain; after the loop the last event is a batch, n records in
\* pools of p made ceil(n / p) batches, and b batches were separated by b - 1
\* sleeps (none for b <= 1).
C10_NoTrailingDelay ==
    LET n == Len(input0)
        p == Min(DETAIL_PAGE_CONCURRENCY, n)
    IN  /\ \A k \in 1 .. Len(log) : log[k].ev = IF k % 2 = 1 THEN "batch" ELSE "sleep"
        /\ pc = "sleep" => \E i \in Records : fstate[i] = "not-visited"
        /\ EnrichmentOver =>
              /\ Len(log) > 0 => log[Len(log)].ev = "batch"
              /\ n > 0 => BatchCount = (n + p - 1) \div p
              /\ SleepCount = IF BatchCount <= 1 THEN 0 ELSE BatchCount - 1

\* three batches of one record, two sleeps, none after the third
C10_Witness ==
    /\ pc = "done"
    /\ BatchCount = 3
    /\ SleepCount = 2
    /\ log[Len(log)].ev = "batch"

\* C11: a fetch that fails resolves to the sentinel (a dict with empty title,
\* location and category), not to an exception; the records whose fetch did not
\* fail are merged with their own results; and after the loop every record of
\* every batch has been visited and merged, whatever failed before.
C11_FailureIsolated ==
    \A i \in Records :
        /\ failed[i] =>
              /\ fetched[i].kind = "dict"
              /\ AllEmpty(fetched[i])
              /\ fstate[i] = "visited-empty"
        /\ merged[i] /\ ~failed[i] => items_to_detail[i] = MergeItem(input0[i], fetched[i])
        /\ EnrichmentOver => fstate[i] \in Visited /\ merged[i]

\* the first fetch of a batch of two failed; the second record took its own detail
\* title and the next batch ran
C11_Witness ==
    /\ pc = "done"
    /\ Len(input0) = 3
    /\ Len(detail_pages) = 2
    /\ failed[1]
    /\ ~failed[2]
    /\ items_to_detail[2].title = DetailTitle(Url(2))
    /\ fstate[3] = "visited-success"
    /\ merged[3]

\* ------------------------------------------- page operations that hang or raise
\* await page.evaluate(...) never returns: the call takes no timeout, and neither
\* _fetch_detail nor asyncio.gather is wrapped in one
EvalHang(j) ==
    /\ pc = "gather"
    /\ tasks[j].pc = "evaluate"
    /\ tasks' = [tasks EXCEPT ![j].pc = "hung"]
    /\ UNCHANGED <<otherStages, variant, DETAIL_PAGE_CONCURRENCY, items_to_detail, detail_pages,
                   chunk_start, pc, results, delay_ms, input0, visits, fstate, fetched,
                   failed, merged, overtook, log>>

\* await browser.new_page() raises while the pool is created: main() is left
NewPageFail ==
    /\ pc = "new_page"
    /\ total > 0 /\ concurrency > 0
    /\ Len(detail_pages) < concurrency
    /\ pc' = "crashed"
    /\ UNCHANGED <<otherStages, variant, DETAIL_PAGE_CONCURRENCY, items_to_detail, detail_pages,
                   chunk_start, tasks, results, delay_ms, input0, visits, fstate, fetched,
                   failed, merged, overtook, log>>

\* await p.close() raises in the close loop: main() is left, the later handles are
\* not closed by the loop
ClosePageFail ==
    /\ pc = "close"
    /\ \E h \in 1 .. Len(detail_pages) : ~detail_pages[h].closed
    /\ pc' = "crashed"
    /\ UNCHANGED <<otherStages, variant, DETAIL_PAGE_CONCURRENCY, items_to_detail, detail_pages,
                   chunk_start, tasks, results, delay_ms, input0, visits, fstate, fetched,
                   failed, merged, overtook, log>>

FaultNext ==
    \/ Next
    \/ \E j \in Positions : EvalHang(j)
    \/ NewPageFail
    \/ ClosePageFail

\* The event loop runs every coroutine that can continue, and an operation that
\* returns or raises does so in finite time.
FaultSpec == Init /\ [][FaultNext]_vars /\ WF_vars(FaultNext)

\* C12: every detail fetch that starts eventually resolves (visited-success or
\* visited-empty), and every batch that starts is eventually joined.
C12_FetchResolves ==
    /\ \A i \in 1 .. MaxRecords :
          (i \in Records /\ fstate[i] = "visit-in-flight") ~>
              (i \in Records /\ fstate[i] \in Visited)
    /\ (pc = "gather") ~> (pc # "gather")

MaxTarget == 3
MaxCount == MaxTarget + 1
MaxTriggers == MaxTarget + 1

MORE_BUTTON_POLL_INTERVAL_MS == 200
MORE_BUTTON_POLL_MAX_MS == 5000

\* The renderer's card list: "static" never grows, "plus1" shows one more card after
\* each click, "monotone" grows at any time by any amount, "any" changes freely.
Sources == {"static", "plus1", "monotone", "any"}

\* with a static or plus1 source the control is present and enabled and no call raises
Reliable == source \in {"static", "plus1"}

\* the enrichment stage has not begun
EnrichmentIdle ==
    /\ variant = "require"
    /\ DETAIL_PAGE_CONCURRENCY = 1
    /\ items_to_detail = << >>
    /\ input0 = << >>
    /\ detail_pages = << >>
    /\ chunk_start = 0
    /\ tasks = [j \in Positions |-> IdleTask]
    /\ results = [j \in Positions |-> NoResult]
    /\ visits = << >>
    /\ fstate = << >>
    /\ fetched = << >>
    /\ failed = << >>
    /\ merged = << >>
    /\ delay_ms = 0
    /\ overtook = FALSE
    /\ log = << >>

pipeline == <<raw, items, allowed_set, items_to_write, filterConfig, browserFetch, sink>>

\* the state at "prev_count = 0", after page.wait_for_selector(ITEM_SELECTOR) returned:
\* the list shows at least the card that was waited for (a monotone or arbitrary list
\* changes from there before the first read)
ExpandInit ==
    /\ pc = "count"
    /\ source \in Sources
    /\ TARGET_COUNT \in 1 .. MaxTarget
    /\ dom_count \in (IF Reliable THEN 1 .. MaxCount ELSE {1})
    /\ c0 = dom_count
    /\ pending = 0
    /\ prev_count = 0
    /\ count = 0
    /\ elapsed = 0
    /\ triggers = 0
    /\ exit_reason = ""
    /\ raw = << >>
    /\ items = << >>
    /\ allowed_set = {}
    /\ items_to_write = << >>
    /\ FiltersIdle
    /\ BrowserFetchIdle
    /\ EnrichmentIdle

\* a faulty OnControlFailure: the exception leaves main()
OnControlFailureRaise == "crashed"

\* except Exception as e: print(...); break
OnControlFailure == "extract"

\* an exception raised outside the try block leaves main()
OnUncaught == "crashed"

\* the loop is left through a break
Leave(reason) ==
    /\ pc' = "extract"
    /\ exit_reason' = reason

\* a faulty TargetReached: one card more than the target is asked for
TargetReachedStrict(n) == n > TARGET_COUNT

\* if count >= TARGET_COUNT
TargetReached(n) == n >= TARGET_COUNT

\* a faulty Stalled: the stall test is missing
StalledNever(n) == n # n

\* if count == prev_count
Stalled(n) == n = prev_count

\* count = await cards.count() and the two tests that follow it
CountTop ==
    /\ pc = "count"
    /\ count' = dom_count
    /\ IF TargetReached(count')
       THEN Leave("target") /\ UNCHANGED prev_count
       ELSE IF Stalled(count')
            THEN Leave("stall") /\ UNCHANGED prev_count
            ELSE /\ prev_count' = count'
                 /\ pc' = "more_btn_count"
                 /\ UNCHANGED exit_reason
    /\ UNCHANGED <<enrichment, pipeline, source, TARGET_COUNT, dom_count, pending,
                   elapsed, c0, triggers>>

\* a call of the loop raises
Raise(to, reason) ==
    /\ ~Reliable
    /\ pc' = to
    /\ exit_reason' = reason
    /\ UNCHANGED <<enrichment, pipeline, source, TARGET_COUNT, dom_count, pending, prev_count,
                   count, elapsed, c0, triggers>>

\* await cards.count() raises at the loop top
CountTopFail ==
    /\ pc = "count"
    /\ Raise(OnUncaught, "uncaught")

\* if await more_btn.count() == 0: break
MoreBtnCount ==
    /\ pc = "more_btn_count"
    /\ \E n \in (IF Reliable THEN {1} ELSE {0, 1}) :
          IF n = 0
          THEN Leave("no_button")
          ELSE pc' = "is_enabled" /\ UNCHANGED exit_reason
    /\ UNCHANGED <<enrichment, pipeline, source, TARGET_COUNT, dom_count, pending, prev_count,
                   count, elapsed, c0, triggers>>

\* await more_btn.count() raises
MoreBtnCountFail ==
    /\ pc = "more_btn_count"
    /\ Raise(OnUncaught, "uncaught")

\* if not await more_btn.is_enabled(): break
IsEnabled ==
    /\ pc = "is_enabled"
    /\ \E b \in (IF Reliable THEN {TRUE} ELSE BOOLEAN) :
          IF ~b
          THEN Leave("disabled")
          ELSE pc' = "click" /\ UNCHANGED exit_reason
    /\ UNCHANGED <<enrichment, pipeline, source, TARGET_COUNT, dom_count, pending, prev_count,
                   count, elapsed, c0, triggers>>

\* await more_btn.is_enabled() raises
IsEnabledFail ==
    /\ pc = "is_enabled"
    /\ Raise(OnUncaught, "uncaught")

\* await more_btn.click() returns; deadline = time.monotonic() + MORE_BUTTON_POLL_MAX_MS / 1000.
\* The guard on triggers only keeps the state space finite when the loop does not end.
Click ==
    /\ pc = "click"
    /\ triggers < MaxTriggers
    /\ triggers' = triggers + 1
    /\ pending' = IF source = "plus1" THEN pending + 1 ELSE pending
    /\ elapsed' = 0
    /\ pc' = "poll"
    /\ UNCHANGED <<enrichment, pipeline, source, TARGET_COUNT, dom_count, prev_count, count,
                   c0, exit_reason>>

\* await more_btn.click() raises
ClickFail ==
    /\ pc = "click"
    /\ Raise(OnControlFailure, "control_failure")

\* a faulty DeadlineReached: the deadline is twice as far
DeadlineReachedLate(t) == t >= 2 * MORE_BUTTON_POLL_MAX_MS

\* if time.monotonic() >= deadline
DeadlineReached(t) == t >= MORE_BUTTON_POLL_MAX_MS

\* a faulty Poll: the growth test is new_count >= prev_count
PollEndsOnEqual ==
    /\ pc = "poll"
    /\ elapsed' = elapsed + MORE_BUTTON_POLL_INTERVAL_MS
    /\ source = "plus1" /\ DeadlineReached(elapsed') => pending = 0
    /\ LET new_count == dom_count
       IN  pc' = IF new_count >= prev_count THEN "count"
                 ELSE IF DeadlineReached(elapsed') THEN "count"
                 ELSE "poll"
    /\ UNCHANGED <<enrichment, pipeline, source, TARGET_COUNT, dom_count, pending, prev_count,
                   count, c0, triggers, exit_reason>>

\* One round of the poll loop: asyncio.sleep(interval), new_count = await cards.count(),
\* the growth test, the deadline test. Time advances by the sleep interval (the duration
\* of the calls is not counted); a plus1 list shows the requested card before the
\* deadline.
Poll ==
    /\ pc = "poll"
    /\ elapsed' = elapsed + MORE_BUTTON_POLL_INTERVAL_MS
    /\ source = "plus1" /\ DeadlineReached(elapsed') => pending = 0
    /\ LET new_count == dom_count
       IN  pc' = IF new_count > prev_count THEN "count"
                 ELSE IF DeadlineReached(elapsed') THEN "count"
                 ELSE "poll"
    /\ UNCHANGED <<enrichment, pipeline, source, TARGET_COUNT, dom_count, pending, prev_count,
                   count, c0, triggers, exit_reason>>

\* await cards.count() raises inside the try block
PollFail ==
    /\ pc = "poll"
    /\ Raise(OnControlFailure, "control_failure")

\* items = await page.evaluate(...): one record per card the renderer shows
Extract ==
    /\ pc = "extract"
    /\ raw' = [i \in 1 .. dom_count |-> Card(Url(i), ListLocation(Url(i)), "A")]
    /\ pc' = "dedupe"
    /\ UNCHANGED <<enrichment, filterConfig, browserFetch, sink, items, allowed_set, items_to_write, source, TARGET_COUNT,
                   dom_count, pending, prev_count, count, elapsed, c0,
                   triggers, exit_reason>>

\* --- the renderer
\* a plus1 list shows the card the click asked for
ShowRequested ==
    /\ source = "plus1"
    /\ pc = "poll"
    /\ pending > 0
    /\ dom_count < MaxCount
    /\ dom_count' = dom_count + 1
    /\ pending' = pending - 1
    /\ UNCHANGED <<enrichment, pipeline, pc, source, TARGET_COUNT, prev_count, count,
                   elapsed, c0, triggers, exit_reason>>

\* a monotone list grows, an arbitrary one changes, before a count is read
ListChanges ==
    /\ source \in {"monotone", "any"}
    /\ pc \in {"count", "poll"}
    /\ \E n \in 0 .. MaxCount :
          /\ n # dom_count
          /\ source = "monotone" => n > dom_count
          /\ dom_count' = n
    /\ UNCHANGED <<enrichment, pipeline, pc, source, TARGET_COUNT, pending, prev_count, count,
                   elapsed, c0, triggers, exit_reason>>

ExpandProgram ==
    \/ CountTop
    \/ CountTopFail
    \/ MoreBtnCount
    \/ MoreBtnCountFail
    \/ IsEnabled
    \/ IsEnabledFail
    \/ Click
    \/ ClickFail
    \/ Poll
    \/ PollFail
    \/ Extract

ExpandNext ==
    \/ ExpandProgram
    \/ ShowRequested
    \/ ListChanges

ExpandSpec == ExpandInit /\ [][ExpandNext]_vars

\* Every call of the loop returns or raises in finite time, and a plus1 list shows the
\* requested card.
ExpandFairSpec == ExpandSpec /\ WF_vars(ExpandProgram) /\ WF_vars(ShowRequested)

LoopPositions == {"count", "more_btn_count", "is_enabled", "click", "poll"}

\* C14: with a list that never grows and shows c0 cards, 0 < c0 < TARGET_COUNT, the
\* control present and enabled, the loop clicks exactly once, polls no longer than
\* MORE_BUTTON_POLL_MAX_MS, and ends as a stall at the next count read.
C14_StaticStall ==
    /\ [](source = "static" /\ 0 < c0 /\ c0 < TARGET_COUNT =>
             /\ triggers <= 1
             /\ elapsed <= MORE_BUTTON_POLL_MAX_MS
             /\ pc # "crashed"
             /\ pc \notin LoopPositions =>
                   /\ triggers = 1
                   /\ elapsed = MORE_BUTTON_POLL_MAX_MS
                   /\ exit_reason = "stall"
                   /\ count = c0)
    /\ (source = "static" /\ 0 < c0 /\ c0 < TARGET_COUNT) ~> (exit_reason = "stall")

C14_Witness ==
    /\ source = "static" /\ c0 = 2 /\ TARGET_COUNT = 3
    /\ pc = "extract" /\ exit_reason = "stall"
    /\ triggers = 1 /\ elapsed = MORE_BUTTON_POLL_MAX_MS

\* C15: with a list that shows one more card per click and c0 <= TARGET_COUNT cards at
\* the start, the loop ends with a count equal to TARGET_COUNT after exactly
\* TARGET_COUNT - c0 clicks.
C15_PlusOneReachesTarget ==
    /\ [](source = "plus1" /\ c0 <= TARGET_COUNT =>
             /\ triggers <= TARGET_COUNT - c0
             /\ pc # "crashed"
             /\ pc \notin LoopPositions =>
                   /\ exit_reason = "target"
                   /\ count = TARGET_COUNT
                   /\ dom_count = TARGET_COUNT
                   /\ triggers = TARGET_COUNT - c0)
    /\ (source = "plus1" /\ c0 <= TARGET_COUNT) ~> (exit_reason = "target")

C15_Witness ==
    /\ source = "plus1" /\ c0 = 1 /\ TARGET_COUNT = 3
    /\ pc = "extract" /\ exit_reason = "target"
    /\ triggers = 2 /\ count = 3

\* C16: whatever counts the renderer reports, the number of clicks, which is at most
\* the number of iterations of the loop, never exceeds TARGET_COUNT.
C16_AnyRenderer == triggers <= TARGET_COUNT

\* C17: when the click raises, or a count read raises while polling, the loop is left
\* like any other end of the expansion: main() goes on to the extraction with the cards
\* the renderer shows, and no exception leaves it.
C17_ControlFailureConverges ==
    /\ exit_reason = "control_failure" =>
          /\ pc \in {"extract", "dedupe"}
          /\ pc = "dedupe" => Len(raw) = dom_count
    /\ pc = "crashed" => exit_reason = "uncaught"

C17_Witness ==
    /\ exit_reason = "control_failure"
    /\ pc = "dedupe" /\ Len(raw) = 2
    /\ triggers = 1 /\ elapsed = 2 * MORE_BUTTON_POLL_INTERVAL_MS

\* C18: no failure of a renderer call leaves main() as an uncaught exception.
C18_Recovered == pc # "crashed"

\* ============================== deduplication, category pre-pass, post-filter
MaxCards == 3

\* The cards a result list can show: two cards of the same listing (one with its
\* category, one without), another listing without category, and a card whose link has
\* no href (url "").
RawCards ==
    { Card(Url(1), ListLocation(Url(1)), "A"),
      Card(Url(1), "", ""),
      Card(Url(2), "", ""),
      Card("", "", "A") }

RawSequences == UNION { [1 .. n -> RawCards] : n \in 0 .. MaxCards }

\* allowed_set: {} stands for None (no filter); names are non-empty, as the command
\* line and ALLOWED_CATEGORIES give them
AllowSets == { {}, {"A"}, {"B"} }

RECURSIVE DedupeLoop(_, _, _, _)
\* for i in items: u = i.get("url") or ""; if u and u not in seen_urls: ...
DedupeLoop(xs, k, seen_urls, items_deduped) ==
    IF k > Len(xs)
    THEN items_deduped
    ELSE LET u == xs[k].url
         IN  IF u # "" /\ u \notin seen_urls
             THEN DedupeLoop(xs, k + 1, seen_urls \cup {u}, Append(items_deduped, xs[k]))
             ELSE DedupeLoop(xs, k + 1, seen_urls, items_deduped)

Reverse(xs) == [k \in 1 .. Len(xs) |-> xs[Len(xs) + 1 - k]]

\* a faulty Dedupe: the last occurrence of each url is kept
DedupeKeepsLast(xs) == Reverse(DedupeLoop(Reverse(xs), 1, {}, << >>))

\* a faulty Dedupe: records with an empty url are not dropped
DedupeKeepsEmptyUrl(xs) ==
    LET IsFirst(k) == \A j \in 1 .. k - 1 : xs[j].url # xs[k].url
        RECURSIVE Pick(_)
        Pick(k) == IF k > Len(xs) THEN << >>
                   ELSE IF IsFirst(k) THEN <<xs[k]>> \o Pick(k + 1) ELSE Pick(k + 1)
    IN  Pick(1)

\* seen_urls = set(); items_deduped = []; the loop; items = items_deduped
Dedupe(xs) == DedupeLoop(xs, 1, {}, << >>)

\* i.get("category") in allowed_set
Allowed(i) == i.category \in allowed_set

\* not (i.get("category") or "").strip(): the extraction script trims the category
Unknown(i) == i.category = ""

AllowedOrUnknown(i) == Allowed(i) \/ Unknown(i)

\* a faulty PreFilter: the selected records stay in their original order
PreFilterOriginalOrder(xs) ==
    IF allowed_set # {}
    THEN SelectSeq(xs, AllowedOrUnknown)
    ELSE xs

\* known_allowed + unknown when there is an allow-set, items otherwise
PreFilter(xs) ==
    IF allowed_set # {}
    THEN SelectSeq(xs, Allowed) \o SelectSeq(xs, Unknown)
    ELSE xs

\* a faulty PostFilter: nothing is dropped after enrichment
PostFilterKeepsAll(xs) == IF allowed_set # {} THEN xs ELSE xs

\* items_to_write: the records whose category is allowed, or all without an allow-set
PostFilter(xs) ==
    IF allowed_set # {}
    THEN SelectSeq(xs, Allowed)
    ELSE xs

\* the state after the extraction script returned
PipeInit ==
    /\ pc = "dedupe"
    /\ raw \in RawSequences
    /\ allowed_set \in AllowSets
    /\ items = << >>
    /\ items_to_write = << >>
    /\ FiltersIdle
    /\ BrowserFetchIdle
    /\ variant \in {"require", "rough"}
    /\ DETAIL_PAGE_CONCURRENCY \in 1 .. MaxConcurrency
    /\ items_to_detail = << >>
    /\ input0 = << >>
    /\ detail_pages = << >>
    /\ chunk_start = 0
    /\ tasks = [j \in Positions |-> IdleTask]
    /\ results = [j \in Positions |-> NoResult]
    /\ visits = << >>
    /\ fstate = << >>
    /\ fetched = << >>
    /\ failed = << >>
    /\ merged = << >>
    /\ delay_ms = 0
    /\ overtook = FALSE
    /\ log = << >>
    /\ source = "none"
    /\ TARGET_COUNT = 0
    /\ dom_count = 0
    /\ pending = 0
    /\ prev_count = 0
    /\ count = 0
    /\ elapsed = 0
    /\ c0 = 0
    /\ triggers = 0
    /\ exit_reason = ""

expander == <<source, TARGET_COUNT, dom_count, pending, prev_count, count, elapsed, c0,
              triggers, exit_reason>>

\* the deduplication loop and "items = items_deduped"
DedupeStep ==
    /\ pc = "dedupe"
    /\ items' = Dedupe(raw)
    /\ pc' = IF variant = "apple" THEN "filter" ELSE "prepass"
    /\ UNCHANGED <<enrichment, expander, filterConfig, browserFetch, sink, raw, allowed_set,
                   items_to_write>>

\* the category pre-pass; enrichment starts on its result
PrePass ==
    /\ pc = "prepass"
    /\ items_to_detail' = PreFilter(items)
    /\ input0' = items_to_detail'
    /\ visits' = [i \in 1 .. Len(items_to_detail') |-> 0]
    /\ fstate' = [i \in 1 .. Len(items_to_detail') |-> "not-visited"]
    /\ fetched' = [i \in 1 .. Len(items_to_detail') |-> NoResult]
    /\ failed' = [i \in 1 .. Len(items_to_detail') |-> FALSE]
    /\ merged' = [i \in 1 .. Len(items_to_detail') |-> FALSE]
    /\ pc' = "new_page"
    /\ UNCHANGED <<otherStages, variant, DETAIL_PAGE_CONCURRENCY, detail_pages, chunk_start,
                   tasks, results, delay_ms, overtook, log>>

\* the post-filter after the pages are closed
PostFilterStep ==
    /\ pc = "done"
    /\ items_to_write' = PostFilter(items_to_detail)
    /\ pc' = "written"
    /\ UNCHANGED <<enrichment, expander, filterConfig, browserFetch, sink, raw, items, allowed_set>>

\* rows = [{k: item.get(k, "") for k in fieldnames} for item in items_to_write]
Rows(xs) ==
    [k \in 1 .. Len(xs) |->
        [title |-> xs[k].title, location |-> xs[k].location, category |-> xs[k].category]]

\* the output file is opened, the header and the rows are written, the browser is closed
WriteCsv ==
    /\ pc = "written"
    /\ csv' = [written |-> TRUE, rows |-> Rows(items_to_write)]
    /\ pc' = "exit"
    /\ UNCHANGED <<enrichment, expander, filterConfig, browserFetch, no_items_msg, raw, items, allowed_set,
                   items_to_write>>

PipeNext ==
    \/ DedupeStep
    \/ PrePass
    \/ Next
    \/ PostFilterStep
    \/ WriteCsv

PipeSpec == PipeInit /\ [][PipeNext]_vars

\* the position of the first record of xs that carries url u
FirstIndex(xs, u) ==
    CHOOSE k \in 1 .. Len(xs) : xs[k].url = u /\ \A j \in 1 .. k - 1 : xs[j].url # u

\* C19 as stated: after deduplication the first occurrence of every url of the input
\* is in the output.
C19_KeepsEachUrl ==
    pc # "dedupe" =>
        \A j \in 1 .. Len(raw) :
            \E k \in 1 .. Len(items) : items[k] = raw[FirstIndex(raw, raw[j].url)]

\* C19, amended: the output holds exactly the first occurrence of each non-empty url,
\* in the order of the input, no record with an empty url, and deduplicating it again
\* changes nothing.
C19_DedupeStable ==
    pc # "dedupe" =>
        /\ \A k \in 1 .. Len(items) :
              /\ items[k].url # ""
              /\ items[k] = raw[FirstIndex(raw, items[k].url)]
        /\ \A k, l \in 1 .. Len(items) :
              k < l => FirstIndex(raw, items[k].url) < FirstIndex(raw, items[l].url)
        /\ \A j \in 1 .. Len(raw) :
              raw[j].url # "" => \E k \in 1 .. Len(items) : items[k].url = raw[j].url
        /\ Dedupe(items) = items

C19_Witness ==
    /\ pc = "prepass"
    /\ Len(raw) = 3
    /\ raw[1].url = Url(1) /\ raw[2].url = "" /\ raw[3].url = Url(1)
    /\ raw[1] # raw[3]
    /\ items = <<raw[1]>>

\* C20: every record handed to the CSV writer has a non-empty url, and no two of them
\* have the same url.
C20_OutputUrls ==
    pc = "written" =>
        \A k, l \in 1 .. Len(items_to_write) :
            /\ items_to_write[k].url # ""
            /\ k # l => items_to_write[k].url # items_to_write[l].url

C20_Witness ==
    /\ pc = "written"
    /\ allowed_set = {"B"}
    /\ Len(raw) = 3 /\ raw[1].url = raw[3].url
    /\ Len(items_to_write) = 2

\* ================================== status and price filter (apple script)
MaxPriceLen == 3

\* A price string is a sequence of characters. "W" stands for the won sign the script
\* removes, "x" for any other character.
Digits == {"0", "1", "2", "3", "4", "5", "6", "7", "8", "9"}

PriceChars == {"0", "1", "2", ",", "W", " ", "x"}

PriceStrings == UNION { [1 .. n -> PriceChars] : n \in 0 .. MaxPriceLen }

\* the statuses the extraction script assigns: on sale (the default), reserved, and the
\* two "sold" markers
Statuses == {"on-sale", "reserved", "deal-done", "sale-done"}

\* a faulty SOLD_STATUSES: reserved counts as sold
SOLD_STATUSES_AndReserved == {"deal-done", "sale-done", "reserved"}

SOLD_STATUSES == {"deal-done", "sale-done"}

RECURSIVE Remove(_, _)
\* str.replace(ch, "")
Remove(str, ch) ==
    IF str = << >> THEN << >>
    ELSE IF Head(str) = ch THEN Remove(Tail(str), ch)
    ELSE <<Head(str)>> \o Remove(Tail(str), ch)

RECURSIVE LStrip(_)
LStrip(str) == IF str # << >> /\ Head(str) = " " THEN LStrip(Tail(str)) ELSE str

\* str.strip()
Strip(str) == Reverse(LStrip(Reverse(LStrip(str))))

DigitValue(d) ==
    CASE d = "0" -> 0 [] d = "1" -> 1 [] d = "2" -> 2 [] d = "3" -> 3 [] d = "4" -> 4
      [] d = "5" -> 5 [] d = "6" -> 6 [] d = "7" -> 7 [] d = "8" -> 8 [] d = "9" -> 9

RECURSIVE DigitRun(_)
\* the digits a string begins with
DigitRun(str) ==
    IF str # << >> /\ Head(str) \in Digits
    THEN <<Head(str)>> \o DigitRun(Tail(str))
    ELSE << >>

RECURSIVE FirstDigitRun(_)
\* re.findall(r"\d+", s)[0], or the empty string when nothing matches
FirstDigitRun(str) ==
    IF str = << >> THEN << >>
    ELSE IF Head(str) \in Digits THEN DigitRun(str)
    ELSE FirstDigitRun(Tail(str))

RECURSIVE ToInt(_)
\* int(numbers[0])
ToInt(ds) ==
    IF ds = << >> THEN 0
    ELSE 10 * ToInt(SubSeq(ds, 1, Len(ds) - 1)) + DigitValue(ds[Len(ds)])

\* a faulty parse_price: the commas are not removed
parse_priceKeepsCommas(price_str) ==
    IF price_str = << >>
    THEN {}
    ELSE LET s == Strip(Remove(Strip(price_str), "W"))
             numbers == FirstDigitRun(s)
         IN  IF numbers = << >> THEN {} ELSE {ToInt(numbers)}

\* _parse_price: {} for None, {v} for the integer v
parse_price(price_str) ==
    IF price_str = << >>
    THEN {}
    ELSE LET s == Strip(Remove(Remove(Strip(price_str), ","), "W"))
             numbers == FirstDigitRun(s)
         IN  IF numbers = << >> THEN {} ELSE {ToInt(numbers)}

\* a card of the apple script: the fields of Card and price and status
AppleCard(u, loc, cat, price, status) ==
    [url |-> u, title |-> ListTitle(u), location |-> loc, category |-> cat,
     description |-> "", price |-> price, status |-> status]

\* if sold_only: status = (i.get("status") or "").strip(); if status not in SOLD_STATUSES: continue
\* (the extraction script only assigns the four trimmed statuses)
StatusPasses(i) == sold_only => i.status \in SOLD_STATUSES

\* a faulty PricePasses: the upper bound is tested for truth, so 0 means no bound
PricePassesMaxTruthy(i) ==
    LET price_num == parse_price(i.price)
    IN  /\ ~(price_num = {} \/ \E v \in price_num : v < min_price)
        /\ ~(max_price # {} /\ max_price # {0} /\
             \E v \in price_num, m \in max_price : v > m)

\* price_num = _parse_price(...); if price_num is None or price_num < min_price_val: continue
\* if max_price_val is not None and price_num > max_price_val: continue
PricePasses(i) ==
    LET price_num == parse_price(i.price)
    IN  /\ ~(price_num = {} \/ \E v \in price_num : v < min_price)
        /\ ~(max_price # {} /\ \E v \in price_num, m \in max_price : v > m)

\* a faulty Keeps: the status is not looked at
KeepsPriceOnly(i) == PricePasses(i) /\ PricePasses(i)

Keeps(i) == StatusPasses(i) /\ PricePasses(i)

\* items_filtered
StatusPriceFilter(xs) == SelectSeq(xs, Keeps)

ExpanderIdle ==
    /\ source = "none"
    /\ TARGET_COUNT = 0
    /\ dom_count = 0
    /\ pending = 0
    /\ prev_count = 0
    /\ count = 0
    /\ elapsed = 0
    /\ c0 = 0
    /\ triggers = 0
    /\ exit_reason = ""

MinPrices == {0, 2, 12}

MaxPrices == { {}, {0}, {11}, {21} }

\* one extracted card, any price string and status, any filter configuration
FilterInit ==
    /\ pc = "dedupe"
    /\ variant = "apple"
    /\ raw \in { <<AppleCard(Url(1), "", "", p, st)>> : p \in PriceStrings, st \in Statuses }
    /\ sold_only \in BOOLEAN
    /\ min_price \in MinPrices
    /\ max_price \in MaxPrices
    /\ allowed_set = {}
    /\ items = << >>
    /\ items_to_write = << >>
    /\ csv = NoFile
    /\ BrowserFetchIdle
    /\ no_items_msg = FALSE
    /\ ExpanderIdle
    /\ DETAIL_PAGE_CONCURRENCY = 1
    /\ items_to_detail = << >>
    /\ input0 = << >>
    /\ detail_pages = << >>
    /\ chunk_start = 0
    /\ tasks = [j \in Positions |-> IdleTask]
    /\ results = [j \in Positions |-> NoResult]
    /\ visits = << >>
    /\ fstate = << >>
    /\ fetched = << >>
    /\ failed = << >>
    /\ merged = << >>
    /\ delay_ms = 0
    /\ overtook = FALSE
    /\ log = << >>

\* the filter loop and "items = items_filtered"
FilterStep ==
    /\ pc = "filter"
    /\ items' = StatusPriceFilter(items)
    /\ pc' = IF items' = << >> THEN "no_items" ELSE "prepass"
    /\ UNCHANGED <<enrichment, expander, filterConfig, browserFetch, sink, raw, allowed_set,
                   items_to_write>>

\* if not items: print(...); await browser.close(); return
NoItemsReturn ==
    /\ pc = "no_items"
    /\ no_items_msg' = TRUE
    /\ pc' = "exit"
    /\ UNCHANGED <<enrichment, expander, filterConfig, browserFetch, csv, raw, items, allowed_set,
                   items_to_write>>

FilterNext ==
    \/ DedupeStep
    \/ FilterStep
    \/ NoItemsReturn

FilterSpec == FilterInit /\ [][FilterNext]_vars

\* the filter has run
Filtered == pc \in {"prepass", "no_items", "exit"}

\* the record's price parses to an integer within the configured bounds
PriceInBounds(r) ==
    \E v \in parse_price(r.price) : min_price <= v /\ \A m \in max_price : v <= m

IsSold(r) == r.status = "deal-done" \/ r.status = "sale-done"

\* C21: a record passes the price test iff its price string parses to an integer v with
\* min_price <= v and, when max_price is given (0 included), v <= max_price; a price
\* string without a digit never passes.
C21_PricePredicate ==
    /\ parse_price(<<"1", ",", "2", "W">>) = {12}
    /\ parse_price(<<" ", "2", "x", "1">>) = {2}
    /\ parse_price(<<"W", ",", " ">>) = {}
    /\ Filtered =>
          LET r == raw[1]
              kept == items = <<r>>
          IN  /\ kept => PriceInBounds(r)
              /\ (sold_only => IsSold(r)) => (kept <=> PriceInBounds(r))
              /\ (\A k \in 1 .. Len(r.price) : r.price[k] \notin Digits) => ~kept
              /\ ~kept => items = << >>

C21_Witness ==
    /\ pc = "prepass"
    /\ raw[1].price = <<"1", ",", "2">>
    /\ min_price = 12 /\ max_price = {21}
    /\ items = raw

\* C22: with the status filter enabled a record passes iff its status is one of the two
\* sold statuses (and its price passes), so an on-sale or reserved card never passes;
\* with the filter disabled the price test alone decides.
C22_StatusPredicate ==
    Filtered =>
        LET r == raw[1]
            kept == items = <<r>>
        IN  /\ sold_only => (kept <=> IsSold(r) /\ PriceInBounds(r))
            /\ sold_only /\ r.status \in {"on-sale", "reserved"} => ~kept
            /\ ~sold_only => (kept <=> PriceInBounds(r))

C22_Witness ==
    /\ pc = "exit" /\ no_items_msg
    /\ sold_only
    /\ raw[1].status = "on-sale"
    /\ raw[1].price = <<"2", "1">> /\ min_price = 12 /\ max_price = {}

\* ------------------------------------------- category pre-pass and post-filter
PrePassDone == pc \notin {"dedupe", "filter", "no_items", "prepass"}

VisitedUrls ==
    {tasks[j].url : j \in Positions} \cup
    {detail_pages[h].url : h \in 1 .. Len(detail_pages)}

\* C23: with an allow-set, enrichment receives the records whose list category is
\* allowed, in their order, followed by the records whose list category is empty, in
\* their order; a record with another category is left out and its page is never
\* opened; every record without category is visited.
C23_PrePass ==
    PrePassDone /\ pc # "exit" /\ allowed_set # {} =>
        /\ \A i \in 1 .. Len(items) :
              (items[i].category \in allowed_set \/ items[i].category = "")
                  <=> \E p \in 1 .. Len(input0) : input0[p] = items[i]
        /\ \A p, q \in 1 .. Len(input0) :
              p < q =>
                 /\ input0[p].url # input0[q].url
                 /\ ~(input0[p].category = "" /\ input0[q].category \in allowed_set)
                 /\ (input0[p].category = "") = (input0[q].category = "") =>
                       FirstIndex(items, input0[p].url) < FirstIndex(items, input0[q].url)
        /\ \A i \in 1 .. Len(items) :
              items[i].category \notin allowed_set \cup {""} =>
                  items[i].url \notin VisitedUrls
        /\ pc \in {"close", "done", "written"} =>
              \A p \in 1 .. Len(input0) : visits[p] = 1 /\ fstate[p] \in Visited

C23_Witness ==
    /\ pc = "done"
    /\ allowed_set = {"A"}
    /\ Len(items) = 2 /\ items[1].url = Url(2) /\ items[2].category = "A"
    /\ Len(input0) = 2 /\ input0[1].url = Url(1) /\ input0[2].url = Url(2)
    /\ visits = <<1, 1>>

\* C24: with an allow-set, the records handed to the writer are the enriched records
\* whose final category is allowed, in enrichment order; a record whose list category
\* was allowed and whose detail page gave another non-empty category is dropped.
\* Without an allow-set the writer receives the enrichment output.
C24_PostFilter ==
    pc = "written" =>
        IF allowed_set = {}
        THEN items_to_write = items_to_detail
        ELSE /\ \A k \in 1 .. Len(items_to_write) :
                   /\ items_to_write[k].category \in allowed_set
                   /\ \E i \in 1 .. Len(items_to_detail) :
                         items_to_write[k] = items_to_detail[i]
             /\ \A i \in 1 .. Len(items_to_detail) :
                   items_to_detail[i].category \in allowed_set =>
                       \E k \in 1 .. Len(items_to_write) :
                           items_to_write[k] = items_to_detail[i]
             /\ \A k, l \in 1 .. Len(items_to_write) :
                   k < l => FirstIndex(items_to_detail, items_to_write[k].url)
                               < FirstIndex(items_to_detail, items_to_write[l].url)
             /\ \A i \in 1 .. Len(input0) :
                   /\ input0[i].category \in allowed_set
                   /\ fetched[i].category \notin allowed_set \cup {""}
                   => \A k \in 1 .. Len(items_to_write) :
                         items_to_write[k].url # input0[i].url

C24_Witness ==
    /\ pc = "written"
    /\ allowed_set = {"A"}
    /\ Len(items_to_detail) = 2
    /\ input0[1].category = "A" /\ fetched[1].category = "B"
    /\ fetched[2].category = ""
    /\ items_to_write = << >>

\* ================================================= the apple script end to end
\* Cards of a small result list: a sold listing with category, a sold listing without,
\* a second card of the latter with a price under the minimum, and a second card of
\* the former that is still on sale.
AppleRawCards ==
    { AppleCard(Url(1), ListLocation(Url(1)), "A", <<"2">>, "deal-done"),
      AppleCard(Url(2), "", "", <<"2">>, "sale-done"),
      AppleCard(Url(2), "", "", <<"1">>, "deal-done"),
      AppleCard(Url(1), "", "", <<"2">>, "on-sale") }

AppleRawSequences == UNION { [1 .. n -> AppleRawCards] : n \in 0 .. MaxCards }

DEFAULT_MIN_PRICE == 35000

AtMin == <<"3", "5", ",", "0", "0", "0", "W">>
Above == <<"1", "2", "0", ",", "0", "0", "0", "W">>
Below == <<"3", "4", ",", "9", "9", "9", "W">>

\* a sold card without category
SoldCard(u, price) == AppleCard(u, ListLocation(u), "", price, "deal-done")

\* Ten cards: eight listings, two of them shown twice; three listings priced under
\* the minimum; one listing priced above it and reserved.
ScenarioA ==
    << SoldCard(Url(1), AtMin),
       SoldCard(Url(5), Below),
       SoldCard(Url(2), Above),
       SoldCard(Url(1), AtMin),
       SoldCard(Url(6), <<"1", "0", "0", "W">>),
       SoldCard(Url(3), Above),
       AppleCard(Url(8), ListLocation(Url(8)), "", Above, "reserved"),
       SoldCard(Url(2), Above),
       SoldCard(Url(7), <<"0", "W">>),
       SoldCard(Url(4), AtMin) >>

\* the state after the extraction script returned: a small list under any
\* configuration (one page, or the largest pool), or the ten cards with the default
\* minimum price
ApplePipeInit ==
    /\ pc = "dedupe"
    /\ variant = "apple"
    /\ \/ /\ raw \in AppleRawSequences
          /\ sold_only \in BOOLEAN
          /\ min_price = 2
          /\ allowed_set \in AllowSets
          /\ DETAIL_PAGE_CONCURRENCY \in {1, MaxConcurrency}
       \/ /\ raw = ScenarioA
          /\ sold_only = TRUE
          /\ min_price = DEFAULT_MIN_PRICE
          /\ allowed_set = {"B"}
          /\ DETAIL_PAGE_CONCURRENCY = MaxConcurrency
    /\ max_price = {}
    /\ items = << >>
    /\ items_to_write = << >>
    /\ csv = NoFile
    /\ BrowserFetchIdle
    /\ no_items_msg = FALSE
    /\ ExpanderIdle
    /\ items_to_detail = << >>
    /\ input0 = << >>
    /\ detail_pages = << >>
    /\ chunk_start = 0
    /\ tasks = [j \in Positions |-> IdleTask]
    /\ results = [j \in Positions |-> NoResult]
    /\ visits = << >>
    /\ fstate = << >>
    /\ fetched = << >>
    /\ failed = << >>
    /\ merged = << >>
    /\ delay_ms = 0
    /\ overtook = FALSE
    /\ log = << >>

ApplePipeNext ==
    \/ PipeNext
    \/ FilterStep
    \/ NoItemsReturn

ApplePipeSpec == ApplePipeInit /\ [][ApplePipeNext]_vars

\* C25: a run that ends with no record to write has printed the "no matching posts"
\* message and has written no file.
C25_NoEmptyArtifact ==
    pc = "exit" =>
        /\ csv.written => csv.rows # << >>
        /\ ~csv.written => no_items_msg

Range(xs) == {xs[k] : k \in 1 .. Len(xs)}

RECURSIVE SumSeq(_)
SumSeq(xs) == IF xs = << >> THEN 0 ELSE Head(xs) + SumSeq(Tail(xs))

\* the record passes the status test, the price test and the category pre-pass
Qualifies(r) ==
    /\ sold_only => IsSold(r)
    /\ PriceInBounds(r)
    /\ allowed_set # {} => r.category \in allowed_set \cup {""}

\* enrichment has visited everything it was given
AllVisited == pc \in {"close", "done", "written"} \/ (pc = "exit" /\ csv.written)

\* C26: the detail pages visited are exactly those of the deduplicated records that
\* pass the status test, the price test and the pre-pass, whichever of the two tests is
\* applied first; a record whose fetch failed keeps its list title, location and
\* category. For the ten cards of the scenario (eight listings, three under the minimum
\* of 35000, one reserved) four pages are visited, and a record whose fetch failed
\* keeps its list title and location and has an empty category.
C26_EndToEnd ==
    /\ pc \notin {"dedupe", "filter"} =>
          /\ items = SelectSeq(SelectSeq(Dedupe(raw), PricePasses), StatusPasses)
          /\ items = SelectSeq(SelectSeq(Dedupe(raw), StatusPasses), PricePasses)
    /\ PrePassDone /\ ~no_items_msg =>
          /\ Range(input0) = {r \in Range(Dedupe(raw)) : Qualifies(r)}
          /\ Len(input0) = Cardinality(Range(input0))
          /\ VisitedUrls \subseteq {r.url : r \in Range(input0)} \cup {""}
          /\ \A i \in 1 .. Len(input0) :
                /\ visits[i] <= 1
                /\ AllVisited => visits[i] = 1
                /\ failed[i] =>
                      /\ items_to_detail[i].title = input0[i].title
                      /\ items_to_detail[i].location = input0[i].location
                      /\ items_to_detail[i].category = input0[i].category
    /\ no_items_msg => Range(Dedupe(raw)) \cap {r \in Range(raw) : Qualifies(r)} = {}
    /\ raw = ScenarioA /\ pc # "dedupe" =>
          /\ Len(Dedupe(raw)) = 8
          /\ pc # "filter" => Len(items) = 4
          /\ PrePassDone =>
                /\ [i \in 1 .. Len(input0) |-> input0[i].url]
                      = <<Url(1), Url(2), Url(3), Url(4)>>
                /\ AllVisited => SumSeq(visits) = 4
                /\ \A i \in 1 .. Len(input0) :
                      failed[i] =>
                         /\ items_to_detail[i].title = ListTitle(input0[i].url)
                         /\ items_to_detail[i].location = ListLocation(input0[i].url)
                         /\ items_to_detail[i].category = ""

C26_Witness ==
    /\ raw = ScenarioA
    /\ pc = "exit" /\ csv.written
    /\ visits = <<1, 1, 1, 1>>
    /\ failed = <<FALSE, TRUE, FALSE, FALSE>>
    /\ items_to_detail[2].category = ""
    /\ items_to_detail[1].category = "B"
    /\ Len(csv.rows) = 1

\* ------------------------------------------------------------ batch partition
\* len(items_to_detail[start : start + p]) for a list of n records
SliceLen(start, p, n) == Min(start + p, n) - start

RECURSIVE BatchSizesFrom(_, _, _)
\* the chunk lengths of "for chunk_start in range(start, n, p if p else 1)"
BatchSizesFrom(start, p, n) ==
    IF start >= n
    THEN << >>
    ELSE <<SliceLen(start, p, n)>> \o BatchSizesFrom(start + (IF p # 0 THEN p ELSE 1), p, n)

\* the batch sizes for n records under a configured concurrency c
BatchSizes(n, c) == BatchSizesFrom(0, IF n # 0 THEN Min(c, n) ELSE 0, n)

IsBatch(e) == e.ev = "batch"

\* C27: n records with pool size p = min(concurrency, n) are processed in ceil(n / p)
\* batches that start at 0, p, 2p, ...; each has p records except the last, which has
\* n - p * (ceil(n / p) - 1); concurrency 4 and 10 records give batches of 4, 4 and 2.
C27_BatchPartition ==
    LET n == Len(input0)
        p == Min(DETAIL_PAGE_CONCURRENCY, n)
        nb == IF n = 0 THEN 0 ELSE (n + p - 1) \div p
        batches == SelectSeq(log, IsBatch)
    IN  /\ Len(batches) <= nb
        /\ \A b \in 1 .. Len(batches) :
              /\ batches[b].start = (b - 1) * p
              /\ batches[b].len = IF b < nb THEN p ELSE n - p * (nb - 1)
              /\ batches[b].len >= 1
        /\ EnrichmentOver => Len(batches) = nb
        /\ [b \in 1 .. Len(batches) |-> batches[b].len]
              = SubSeq(BatchSizes(n, DETAIL_PAGE_CONCURRENCY), 1, Len(batches))
        /\ BatchSizes(10, 4) = <<4, 4, 2>>

C27_Witness ==
    /\ pc = "done"
    /\ Len(input0) = 3 /\ DETAIL_PAGE_CONCURRENCY = 2
    /\ [b \in 1 .. 2 |-> SelectSeq(log, IsBatch)[b].len] = <<2, 1>>
    /\ SelectSeq(log, IsBatch)[2].start = 2

\* ------------------------------------------------ list expansion, continued
\* C28: when the list shows at most TARGET_COUNT cards at the start and never loses
\* cards, then after the control has been clicked the count at which the expansion
\* loop ends, and the number of cards extracted, do not exceed TARGET_COUNT.
C28_TargetIsUpperBound ==
    c0 <= TARGET_COUNT /\ source # "any" /\ triggers > 0 =>
        /\ exit_reason = "target" => count <= TARGET_COUNT
        /\ pc = "dedupe" => Len(raw) <= TARGET_COUNT

\* ------------------------------------------------ the content-ready wait times out
\* the record whose fetch runs at batch position j
RecordAt(j) == chunk_start + j

\* the fetch at position j has returned through the except clause in this step
YieldsSentinel(j) ==
    /\ tasks[j].pc # "done"
    /\ tasks'[j].pc = "done"
    /\ failed'[RecordAt(j)]

\* C29: a timeout of the content-ready wait does not fail the fetch. The step that
\* ends wait_for_selector leaves the fetch unresolved, at the extraction (the wait
\* returned) or at the grace wait (the wait timed out); the grace wait is followed
\* by the extraction or by the sentinel; while the fetch is in the grace wait or in
\* the extraction, the step that makes it visited-success is possible; and the
\* sentinel is returned only from the navigation, the grace wait or the extraction.
C29_SelectorTimeoutNotFatal ==
    /\ [](\A j \in Positions :
            /\ tasks[j].pc = "wait_for_timeout" =>
                  fstate[RecordAt(j)] = "visit-in-flight" /\ ENABLED GraceOk(j)
            /\ tasks[j].pc = "evaluate" =>
                  fstate[RecordAt(j)] = "visit-in-flight" /\ ENABLED EvalOk(j))
    /\ [][\A j \in Positions :
            /\ tasks[j].pc = "wait_for_selector" /\ tasks'[j].pc # "wait_for_selector" =>
                  /\ tasks'[j].pc \in {"evaluate", "wait_for_timeout"}
                  /\ fstate' = fstate /\ failed' = failed /\ results' = results
            /\ tasks[j].pc = "wait_for_timeout" /\ tasks'[j].pc # "wait_for_timeout" =>
                  \/ tasks'[j].pc = "evaluate" /\ fstate' = fstate
                  \/ YieldsSentinel(j) /\ results'[j] = FailResult
            /\ tasks[j].pc = "evaluate" /\ tasks'[j].pc # "evaluate" =>
                  /\ tasks'[j].pc = "done"
                  /\ fstate'[RecordAt(j)] =
                        IF failed'[RecordAt(j)] THEN "visited-empty" ELSE "visited-success"
            /\ YieldsSentinel(j) =>
                  tasks[j].pc \in {"goto", "wait_for_timeout", "evaluate"}]_vars

\* a fetch whose content-ready wait timed out is in the grace wait, unresolved and
\* not failed, next to a fetch of the same batch that has already ended
C29_Witness ==
    \E j, k \in Positions :
        /\ pc = "gather"
        /\ tasks[j].pc = "wait_for_timeout"
        /\ fstate[RecordAt(j)] = "visit-in-flight"
        /\ ~failed[RecordAt(j)]
        /\ tasks[k].pc = "done"
        /\ fstate[RecordAt(k)] = "visited-success"

\* ------------------------------------------------ when the control is triggered
\* the positions of the loop between the two count tests and the click
BeforeClick == {"more_btn_count", "is_enabled", "click"}

\* C30: the "load more" control is clicked only when the count just read is below
\* TARGET_COUNT and differs from the count of the previous iteration, and after the
\* control was found present and enabled. The tests run in the order target, stall,
\* control missing, control disabled: the loop top ends the loop as "target" exactly
\* when the count has reached TARGET_COUNT and as "stall" only below it, the
\* presence test is reached only past both count tests, the enabled test only past
\* the presence test, and the click only past the enabled test.
C30_ClickOnlyBelowTarget ==
    /\ [](pc \in BeforeClick => count < TARGET_COUNT /\ prev_count = count)
    /\ [][/\ triggers' # triggers =>
               /\ pc = "click" /\ pc' = "poll"
               /\ triggers' = triggers + 1
               /\ count < TARGET_COUNT
          /\ pc # "click" /\ pc' = "click" => pc = "is_enabled"
          /\ pc # "is_enabled" /\ pc' = "is_enabled" => pc = "more_btn_count"
          /\ pc # "more_btn_count" /\ pc' = "more_btn_count" =>
               /\ pc = "count"
               /\ count' = dom_count
               /\ count' < TARGET_COUNT
               /\ count' # prev_count
          /\ pc = "count" /\ pc' = "extract" =>
               /\ exit_reason' = "target" <=> dom_count >= TARGET_COUNT
               /\ exit_reason' = "stall" <=>
                     dom_count < TARGET_COUNT /\ dom_count = prev_count
          /\ exit_reason' # exit_reason /\ exit_reason' = "no_button" =>
               pc = "more_btn_count"
          /\ exit_reason' # exit_reason /\ exit_reason' = "disabled" =>
               pc = "is_enabled"]_vars

\* the control has been clicked a second time, at a count below the target that the
\* first click had raised
C30_Witness ==
    /\ pc = "poll"
    /\ triggers = 2
    /\ c0 < count
    /\ count < TARGET_COUNT

\* ------------------------------------------------ the poll after a trigger
\* C31: after a click the poll loop reads the card count at least once; a round
\* ends the loop exactly when the count it read exceeds the count seen before the
\* click or the deadline since the click has passed, and goes on otherwise; the loop
\* is left for the top of the expansion loop (or, when a call raises, through the
\* handler of the try block).
C31_PollEnds ==
    /\ [](pc = "poll" => triggers > 0 /\ prev_count = count /\ ~DeadlineReached(elapsed))
    /\ [][/\ pc # "poll" /\ pc' = "poll" => pc = "click" /\ elapsed' = 0
          /\ pc = "poll" /\ pc' # "poll" =>
               \/ /\ pc' = "count"
                  /\ elapsed' = elapsed + MORE_BUTTON_POLL_INTERVAL_MS
                  /\ dom_count > prev_count \/ DeadlineReached(elapsed')
               \/ /\ pc' = OnControlFailure
                  /\ exit_reason' = "control_failure"
          /\ pc = "poll" /\ pc' = "poll" /\ elapsed' # elapsed =>
               /\ elapsed' = elapsed + MORE_BUTTON_POLL_INTERVAL_MS
               /\ dom_count <= prev_count
               /\ ~DeadlineReached(elapsed')]_vars

\* the first read after the click showed no new card, the second did, and the loop is
\* back at its top well before the deadline
C31_Witness ==
    /\ pc = "count"
    /\ triggers = 1
    /\ elapsed = 2 * MORE_BUTTON_POLL_INTERVAL_MS
    /\ dom_count > prev_count
    /\ exit_reason = ""

\* ------------------------------------------------ the count of the previous iteration
\* C32: prev_count, the count the stall test compares with, never decreases from
\* one iteration of the expansion loop to the next, whatever counts the list shows.
C32_PrevCountMonotone == [][prev_count' >= prev_count]_vars

\* ------------------------------------------------ backing off after a failure
\* the sleeps of the run so far
Sleeps == {k \in 1 .. Len(log) : log[k].ev = "sleep"}

\* C33: the sleep after a batch in which a fetch failed is at least as long as the
\* sleep after a batch in which none failed.
C33_BackOffOnFailure ==
    \A k, l \in Sleeps :
        log[k].any_failed /\ ~log[l].any_failed => log[k].delay_ms >= log[l].delay_ms

\* ------------------------------------------------ the value of a price string
\* the string without its commas and won signs
Cleaned(str) ==
    LET Kept(ch) == ch \notin {",", "W"}
    IN  SelectSeq(str, Kept)

DigitPositions(str) == {k \in 1 .. Len(str) : str[k] \in Digits}

RECURSIVE Pow10(_)
Pow10(n) == IF n = 0 THEN 1 ELSE 10 * Pow10(n - 1)

\* the decimal value of str[a .. b]
DecimalValue(str, a, b) ==
    LET weigh[k \in a - 1 .. b] ==
            IF k < a THEN 0 ELSE weigh[k - 1] + DigitValue(str[k]) * Pow10(b - k)
    IN  weigh[b]

\* the value of the first maximal run of digits of str; str holds a digit
FirstRunValue(str) ==
    LET a == CHOOSE k \in DigitPositions(str) : \A h \in DigitPositions(str) : k <= h
        b == CHOOSE k \in a .. Len(str) :
                /\ \A h \in a .. k : h \in DigitPositions(str)
                /\ k + 1 \notin DigitPositions(str)
    IN  DecimalValue(str, a, b)

\* a separator and another run of digits
LaterRuns == { <<"x", "9">>, <<" ", "0", "7">> }

\* C34: _parse_price returns None exactly when the string, with its commas and won
\* signs removed, holds no digit; otherwise it returns the value of the first
\* maximal run of digits of that string, which is not negative. A sign or any other
\* non-digit before the string, and a later run of digits after it, do not change
\* the value; the filter keeps a record only if the value exists. The function is
\* compared with its description where the filter is about to apply it to the card.
C34_ParsePrice ==
    LET price == raw[1].price
        c == Cleaned(price)
        value == parse_price(price)
    IN  /\ pc = "filter" =>
              /\ value = {} <=> DigitPositions(c) = {}
              /\ value # {} => value = {FirstRunValue(c)} /\ \A v \in value : v >= 0
              /\ parse_price(<<"x">> \o price) = value
              /\ value # {} => \A later \in LaterRuns : parse_price(price \o later) = value
        /\ Filtered /\ items # << >> => value # {}

\* the filter has kept a card whose price string is a sign followed by 12, under a
\* minimum price of 12
C34_Witness ==
    /\ pc = "prepass"
    /\ raw[1].price = <<"x", "1", "2">>
    /\ min_price = 12
    /\ items = raw

\* ------------------------------------------------ main() called with any list of names
\* allowed_set = set(allowed_categories) for a list main() is called with directly:
\* the names are not stripped and an empty name is not dropped, as the command line does
DirectAllowSets == { {"A"}, {""}, {"", "A"}, {" "} }

\* the state after the extraction script returned at most two cards, in a run of the
\* require script that main() was called for with any list of names
DirectInit ==
    /\ pc = "dedupe"
    /\ raw \in {r \in RawSequences : Len(r) <= 2}
    /\ allowed_set \in DirectAllowSets
    /\ variant = "require"
    /\ DETAIL_PAGE_CONCURRENCY \in {1, MaxConcurrency}
    /\ items = << >>
    /\ items_to_write = << >>
    /\ FiltersIdle
    /\ BrowserFetchIdle
    /\ ExpanderIdle
    /\ items_to_detail = << >>
    /\ input0 = << >>
    /\ detail_pages = << >>
    /\ chunk_start = 0
    /\ tasks = [j \in Positions |-> IdleTask]
    /\ results = [j \in Positions |-> NoResult]
    /\ visits = << >>
    /\ fstate = << >>
    /\ fetched = << >>
    /\ failed = << >>
    /\ merged = << >>
    /\ delay_ms = 0
    /\ overtook = FALSE
    /\ log = << >>

DirectSpec == DirectInit /\ [][PipeNext]_vars

OutcomeAs(v, j) ==
    IF failed[RecordAt(j)]
    THEN IF v = "rough" THEN FailResultRough ELSE FailResultRequire
    ELSE [results[j] EXCEPT
            !.description = IF v = "rough" /\ results[j].title # ""
                            THEN DetailDescription(tasks[j].url) ELSE ""]

OutcomesAs(v) == [j \in 1 .. Len(chunk) |-> OutcomeAs(v, j)]

\* C36: on the same records and the same fetch outcomes the require script and the
\* rough script merge the same title, location and category into every record of
\* the batch, make the same decision in the post-filter, and choose the same delay
\* after the batch.
C36_VariantsAgree ==
    pc = "gather" /\ GatherDone =>
        /\ \A j \in 1 .. Len(chunk) :
              LET item == items_to_detail[RecordAt(j)]
                  a == MergeRequire(item, OutcomeAs("require", j))
                  b == MergeRough(item, OutcomeAs("rough", j))
              IN  /\ a.url = b.url
                  /\ a.title = b.title
                  /\ a.location = b.location
                  /\ a.category = b.category
                  /\ allowed_set # {} => (Allowed(a) <=> Allowed(b))
        /\ DelayMs(AnyFailRequire(OutcomesAs("require"), Len(chunk)))
              = DelayMs(AnyFailRough(OutcomesAs("rough"), Len(chunk)))

\* ======================================= fetch_html_browser (deprecate/crawl.py)
Engines == {"chromium", "webkit", "firefox"}

\* a faulty EnginesToTry: webkit follows whatever engine was requested
EnginesToTryAlways(e, nf) ==
    IF ~nf /\ e # "" THEN <<e, "webkit">> ELSE <<e>>

\* engines_to_try = [engine]; if not no_fallback and engine == "chromium": append("webkit")
EnginesToTry(e, nf) ==
    IF ~nf /\ e = "chromium" THEN <<e, "webkit">> ELSE <<e>>

\* the loop variable of "for eng in engines_to_try"
eng == tried[Len(tried)]

\* what page.content() returns in a browser of engine e
Html(e) == "html:" \o e

\* the calls of the try block, in order
Steps == {"launch", "new_context", "new_page", "goto", "screenshot", "content"}

\* the exception a call of the attempt with engine e raises (or its wait_for times out)
Err(e, at) == [eng |-> e, at |-> at]

\* the state when the for loop is reached
FetchInit ==
    /\ pc = "for"
    /\ engine \in Engines
    /\ no_fallback \in BOOLEAN
    /\ screenshot_path \in { {}, {"shot.png"} }
    /\ engines_to_try = EnginesToTry(engine, no_fallback)
    /\ tried = << >>
    /\ browser = {}
    /\ context = {}
    /\ last_err = {}
    /\ ret = {}
    /\ opened = {}
    /\ close_calls = {}
    /\ EnrichmentIdle
    /\ ExpanderIdle
    /\ raw = << >>
    /\ items = << >>
    /\ allowed_set = {}
    /\ items_to_write = << >>
    /\ sold_only = FALSE
    /\ min_price = 0
    /\ max_price = {}
    /\ csv = NoFile
    /\ no_items_msg = FALSE

crawlScripts == <<enrichment, expander, raw, items, allowed_set, items_to_write, filterConfig,
                  sink>>

\* for eng in engines_to_try: browser = None; context = None
ForNext ==
    /\ pc = "for"
    /\ Len(tried) < Len(engines_to_try)
    /\ tried' = Append(tried, engines_to_try[Len(tried) + 1])
    /\ browser' = {}
    /\ context' = {}
    /\ pc' = "launch"
    /\ UNCHANGED <<crawlScripts, engine, no_fallback, screenshot_path, engines_to_try,
                   last_err, ret, opened, close_calls>>

\* the loop is exhausted: assert last_err is not None; raise last_err
ForEnd ==
    /\ pc = "for"
    /\ Len(tried) = Len(engines_to_try)
    /\ pc' = IF last_err # {} THEN "raised" ELSE "assertion_error"
    /\ UNCHANGED <<crawlScripts, browserFetch>>

\* except Exception as e: last_err = e, then the finally clause
Except(at) ==
    /\ last_err' = {Err(eng, at)}
    /\ pc' = "close_context"
    /\ UNCHANGED <<crawlScripts, engine, no_fallback, screenshot_path, engines_to_try,
                   tried, browser, context, ret, opened, close_calls>>

\* browser = await asyncio.wait_for(getattr(p, eng).launch(headless=True), ...)
Launch ==
    /\ pc = "launch"
    /\ browser' = {eng}
    /\ opened' = opened \cup {<<"browser", eng>>}
    /\ pc' = "new_context"
    /\ UNCHANGED <<crawlScripts, engine, no_fallback, screenshot_path, engines_to_try,
                   tried, context, last_err, ret, close_calls>>

LaunchFail ==
    /\ pc = "launch"
    /\ Except("launch")

\* context = await asyncio.wait_for(browser.new_context(...), ...)
NewContext ==
    /\ pc = "new_context"
    /\ context' = {eng}
    /\ opened' = opened \cup {<<"context", eng>>}
    /\ pc' = "new_page"
    /\ UNCHANGED <<crawlScripts, engine, no_fallback, screenshot_path, engines_to_try,
                   tried, browser, last_err, ret, close_calls>>

NewContextFail ==
    /\ pc = "new_context"
    /\ Except("new_context")

\* page = await asyncio.wait_for(context.new_page(), ...)
ContextNewPage ==
    /\ pc = "new_page"
    /\ pc' = "goto"
    /\ UNCHANGED <<crawlScripts, browserFetch>>

ContextNewPageFail ==
    /\ pc = "new_page"
    /\ Except("new_page")

\* await page.goto(url, ...); if screenshot_path: ...
Navigate ==
    /\ pc = "goto"
    /\ pc' = IF screenshot_path # {} THEN "screenshot" ELSE "content"
    /\ UNCHANGED <<crawlScripts, browserFetch>>

NavigateFail ==
    /\ pc = "goto"
    /\ Except("goto")

\* await asyncio.wait_for(page.screenshot(...), ...)
Screenshot ==
    /\ pc = "screenshot"
    /\ pc' = "content"
    /\ UNCHANGED <<crawlScripts, browserFetch>>

ScreenshotFail ==
    /\ pc = "screenshot"
    /\ Except("screenshot")

\* html = await asyncio.wait_for(page.content(), ...); return html, eng
\* (the finally clause runs before the value reaches the caller)
Content ==
    /\ pc = "content"
    /\ ret' = {[html |-> Html(eng), eng |-> eng]}
    /\ pc' = "close_context"
    /\ UNCHANGED <<crawlScripts, engine, no_fallback, screenshot_path, engines_to_try,
                   tried, browser, context, last_err, opened, close_calls>>

ContentFail ==
    /\ pc = "content"
    /\ Except("content")

\* what awaiting close() on the handles hs adds to close_calls: every call returns,
\* or raises (or its wait_for times out) and the exception is passed over
CloseCalls(kind, hs) ==
    { {<<kind, h, ok[h]>> : h \in hs} : ok \in [hs -> BOOLEAN] }

\* a faulty CloseContext: the context is closed only after a failed attempt
CloseContextOnFailure ==
    /\ pc = "close_context"
    /\ \E calls \in CloseCalls("context", IF ret = {} THEN context ELSE {}) :
          close_calls' = close_calls \cup calls
    /\ pc' = "close_browser"
    /\ UNCHANGED <<crawlScripts, engine, no_fallback, screenshot_path, engines_to_try,
                   tried, browser, context, last_err, ret, opened>>

\* if context is not None: try: await asyncio.wait_for(context.close(), 5.0)
\* except Exception: pass
CloseContext ==
    /\ pc = "close_context"
    /\ \E calls \in CloseCalls("context", context) : close_calls' = close_calls \cup calls
    /\ pc' = "close_browser"
    /\ UNCHANGED <<crawlScripts, engine, no_fallback, screenshot_path, engines_to_try,
                   tried, browser, context, last_err, ret, opened>>

\* if browser is not None: try: await asyncio.wait_for(browser.close(), 5.0)
\* except Exception: pass; then the pending return, or the next round of the loop
CloseBrowser ==
    /\ pc = "close_browser"
    /\ \E calls \in CloseCalls("browser", browser) : close_calls' = close_calls \cup calls
    /\ pc' = IF ret # {} THEN "returned" ELSE "for"
    /\ UNCHANGED <<crawlScripts, engine, no_fallback, screenshot_path, engines_to_try,
                   tried, browser, context, last_err, ret, opened>>

FetchNext ==
    \/ ForNext
    \/ ForEnd
    \/ Launch
    \/ LaunchFail
    \/ NewContext
    \/ NewContextFail
    \/ ContextNewPage
    \/ ContextNewPageFail
    \/ Navigate
    \/ NavigateFail
    \/ Screenshot
    \/ ScreenshotFail
    \/ Content
    \/ ContentFail
    \/ CloseContext
    \/ CloseBrowser

FetchSpec == FetchInit /\ [][FetchNext]_vars

IsPrefix(s, t) == Len(s) <= Len(t) /\ \A k \in 1 .. Len(s) : s[k] = t[k]

\* C37: fetch_html_browser tries the requested engine first and webkit second, the
\* second only when the requested engine is chromium, no_fallback is false and the
\* first attempt failed; the attempts follow one another; it returns the html and the
\* name of the first engine that succeeded and tries no engine after it; when every
\* attempt failed it raises the error of the last one.
C37_EnginesInSequence ==
    /\ [](/\ IsPrefix(tried, engines_to_try)
          /\ Len(tried) >= 1 => tried[1] = engine
          /\ Len(tried) >= 2 =>
                /\ Len(tried) = 2 /\ tried[2] = "webkit"
                /\ engine = "chromium" /\ ~no_fallback
                /\ \E e \in last_err :
                      e.eng = "chromium" \/ (e.eng = "webkit" /\ ret = {})
          /\ ret # {} => ret = {[html |-> Html(eng), eng |-> eng]}
          /\ pc = "returned" =>
                /\ ret # {}
                /\ \A e \in last_err : e.eng # eng
                /\ last_err = {} <=> Len(tried) = 1
          /\ pc = "raised" =>
                /\ tried = engines_to_try
                /\ ret = {}
                /\ \E at \in Steps : last_err = {Err(engines_to_try[Len(engines_to_try)], at)}
          /\ pc # "assertion_error")
    /\ [][/\ tried' # tried =>
               /\ pc = "for" /\ ret = {}
               /\ Len(tried') = Len(tried) + 1
               /\ tried # << >> => \E e \in last_err : e.eng = eng
          /\ ret # {} => ret' = ret /\ last_err' = last_err
          /\ pc \in {"returned", "raised"} => UNCHANGED vars]_vars

\* chromium failed at the navigation, webkit was tried and its html is returned
C37_Witness ==
    /\ pc = "returned"
    /\ tried = <<"chromium", "webkit">>
    /\ last_err = {Err("chromium", "goto")}
    /\ ret = {[html |-> Html("webkit"), eng |-> "webkit"]}

\* the handles opened so far on which close() has been awaited
CloseAwaited == {<<c[1], c[2]>> : c \in close_calls}

\* the attempt is over: the loop is at its head, or the function has returned or raised
BetweenAttempts == pc \in {"for", "returned", "raised"}

\* C38: when an attempt of fetch_html_browser is over (the next one can start, or the
\* function returns or raises), close() has been awaited on every browser and every
\* context opened so far, whether the attempt succeeded or failed and whether the
\* close() calls succeeded or raised; the finally clause changes neither the value
\* to return nor the error to report, and a raised error is one of the try block.
C38_ClosedAfterAttempt ==
    /\ [](/\ BetweenAttempts => opened \subseteq CloseAwaited
          /\ CloseAwaited \subseteq opened
          /\ pc = "close_browser" => \A h \in context : <<"context", h>> \in CloseAwaited
          /\ pc = "returned" => ret = {[html |-> Html(eng), eng |-> eng]}
          /\ \A e \in last_err : e.at \in Steps)
    /\ [][(pc \in {"close_context", "close_browser"}) =>
               (/\ ret' = ret
                /\ last_err' = last_err
                /\ pc' \in {"close_context", "close_browser", "for", "returned"}
                /\ pc' = "returned" <=> (pc = "close_browser" /\ ret # {}))]_vars

\* webkit's html is returned although closing its context and its browser both failed,
\* after a chromium attempt that opened a browser and failed
C38_Witness ==
    /\ pc = "returned"
    /\ ret = {[html |-> Html("webkit"), eng |-> "webkit"]}
    /\ <<"context", "webkit", FALSE>> \in close_calls
    /\ <<"browser", "webkit", FALSE>> \in close_calls
    /\ <<"browser", "chromium", TRUE>> \in close_calls
    /\ <<"context", "chromium">> \notin opened

====
